---- MODULE Spec2Model ----
(***************************************************************************)
(* IIS-Tunnel: the deploy and restore orchestrators (commands/deploy.ts,   *)
(* commands/restore.ts), the file operations they drive                    *)
(* (services/file-ops.ts), the generated update.bat / restore.bat scripts  *)
(* as they execute on the target host, the SSH session cache, and the      *)
(* library BackupService (services/backup.ts).                             *)
(*                                                                         *)
(* A file tree is a function from paths to a content version, 0 meaning    *)
(* "absent".  A directory exists when a file lies beneath it; the roots    *)
(* (destination, backup root) carry their own existence flag.              *)
(***************************************************************************)
EXTENDS Integers, Sequences, FiniteSets, TLC

\* ---------------------------------------------------------------- bounds
\* Invocations of the tool (deploy or restore) in one behaviour.
MaxRuns == 2
\* Timestamps available to BackupService.createBackup calls; maxBackups
\* ranges over 1 .. MaxTs - 1, so that more backups are created than kept.
MaxTs == 4
\* Longest selector list given to a copyFiles / copyToTemp call.
MaxSelectors == 2
\* ensureSSHConnection calls in flight at once on one FileOpsService, and
\* the sessions it creates in one behaviour.
MaxCalls == 3
\* Entries of a directory listing at which a removal can be made to fail.
MaxEntries == 3
\* The most negative backup.maxBackups a profile is given.
MaxNegative == 2
\* The mkdirSingle calls of one mkdir call that can be made to fail.
MaxSegments == 2
\* The greatest archive size, in units of 256 KiB.
MaxSize == 6
\* The most calls fs.copy makes of its filter for one file.
MaxFilterCalls == 2
\* "copiedSize += 1024 * 1024", in units of 256 KiB.
SimulatedStep == 4
MaxSessions == 4

\* ------------------------------------------------------------ file trees
SrcPaths == {"bin/app.dll", "bin/app.xml", "www/index"}

BatPaths == {"update.bat", "restore.bat"}

\* A top-level file of a source tree whose name ends in ".zip".
ZipPaths == {"site.zip"}

\* A top-level file of a source tree whose name ends in ".bat".
UserBatPaths == {"start.bat"}

\* The files whose extension is ".bat".
DotBat == BatPaths \cup UserBatPaths

AllPaths == SrcPaths \cup BatPaths \cup ZipPaths \cup UserBatPaths

Folders == {"bin", "www"}

FolderOf(p) ==
  CASE p \in {"bin/app.dll", "bin/app.xml"} -> "bin"
    [] p = "www/index" -> "www"
    [] OTHER -> "."

FileOf(p) ==
  CASE p = "bin/app.dll" -> "app.dll"
    [] p = "bin/app.xml" -> "app.xml"
    [] p = "www/index" -> "index"
    [] OTHER -> p

EmptyTree == [p \in AllPaths |-> 0]

FilesIn(t) == {p \in AllPaths : t[p] # 0}

HasFolder(t, f) == \E p \in AllPaths : FolderOf(p) = f /\ t[p] # 0

HasFile(t, f, n) == \E p \in AllPaths : FolderOf(p) = f /\ FileOf(p) = n /\ t[p] # 0

\* fs.copy(src, dst, {overwrite: true}) / xcopy /E /Y of the paths in ps:
\* files present in the source replace or add to the target, nothing is removed.
CopyPaths(from, to, ps) ==
  [p \in AllPaths |-> IF p \in ps /\ from[p] # 0 THEN from[p] ELSE to[p]]

FolderPaths(f) == {p \in AllPaths : FolderOf(p) = f}

\* compressFiles, before archiving: every entry of the directory whose
\* name ends in ".zip" is removed.
removeZips(t) == [p \in AllPaths |-> IF p \in ZipPaths THEN 0 ELSE t[p]]

FilePaths(f, n) == {p \in AllPaths : FolderOf(p) = f /\ FileOf(p) = n}

\* The two states of the source tree a run may find (the source changes
\* between runs): the full tree, and a later tree with a new app.dll only.
SrcA == [p \in AllPaths |-> IF p \in SrcPaths THEN 1 ELSE 0]

SrcB == [p \in AllPaths |-> IF p = "bin/app.dll" THEN 2 ELSE 0]

SourceTrees == {SrcA, SrcB}

\* What the destination holds before the first modelled run, when it exists.
DestLegacy == [p \in AllPaths |-> IF p = "www/index" THEN 2 ELSE 0]

\* What the backups of earlier deployments hold, when there are any.
OlderTree == [p \in AllPaths |-> IF p = "bin/app.xml" THEN 2 ELSE 0]

\* The backup root as the first modelled run finds it: missing, or holding
\* backup_1 and backup_2 of two earlier deployments.
EarlierBackups == <<[name |-> 2, tree |-> OlderTree], [name |-> 1, tree |-> OlderTree]>>

\* ------------------------------------------------------------- selectors
WholeFolder(n) == [kind |-> "folder", name |-> n, files |-> <<>>]

FolderFiles(n, fs) == [kind |-> "files", name |-> n, files |-> fs]

SelectorLists ==
  { <<>>,
    <<WholeFolder("www"), FolderFiles("bin", <<"app.dll">>)>> }

\* The files a selector list picks from a source tree.
RECURSIVE SelectedPaths(_, _)
SelectedPaths(folders, i) ==
  IF i > Len(folders) THEN {}
  ELSE LET s == folders[i]
           here == IF s.kind = "folder" THEN FolderPaths(s.name)
                   ELSE UNION {FilePaths(s.name, s.files[j]) : j \in 1..Len(s.files)}
       IN  here \cup SelectedPaths(folders, i + 1)

Selected(src, folders) ==
  IF Len(folders) = 0 THEN FilesIn(src)
  ELSE FilesIn(src) \cap SelectedPaths(folders, 1)

\* ------------------------------------------------------------ copyToTemp
\* The inner loop over the enumerated files of one {folder: files} selector.
RECURSIVE copyToTempFiles(_, _, _, _, _)
copyToTempFiles(src, tmp, folder, files, j) ==
  IF j > Len(files) THEN [ok |-> TRUE, tree |-> tmp]
  ELSE IF ~HasFile(src, folder, files[j]) THEN [ok |-> FALSE, tree |-> tmp]
  ELSE copyToTempFiles(src, CopyPaths(src, tmp, FilePaths(folder, files[j])),
                       folder, files, j + 1)

\* The loop over the selectors; ioFailAt is the selector at which the copy
\* itself fails (0: no such failure).  A failure throws with the earlier
\* selectors' files already in the temp directory.
RECURSIVE copyToTempFoldersSkipMissing(_, _, _, _, _)
copyToTempFoldersSkipMissing(src, tmp, folders, i, ioFailAt) ==
  IF i > Len(folders) THEN [ok |-> TRUE, tree |-> tmp]
  ELSE LET s == folders[i] IN
    IF i = ioFailAt THEN [ok |-> FALSE, tree |-> tmp]
    ELSE IF ~HasFolder(src, s.name)
      THEN copyToTempFoldersSkipMissing(src, tmp, folders, i + 1, ioFailAt)
    ELSE IF s.kind = "folder"
      THEN copyToTempFoldersSkipMissing(src, CopyPaths(src, tmp, FolderPaths(s.name)),
                                        folders, i + 1, ioFailAt)
      ELSE LET r == copyToTempFiles(src, tmp, s.name, s.files, 1) IN
           IF r.ok THEN copyToTempFoldersSkipMissing(src, r.tree, folders, i + 1, ioFailAt)
           ELSE r

RECURSIVE copyToTempFolders(_, _, _, _, _)
copyToTempFolders(src, tmp, folders, i, ioFailAt) ==
  IF i > Len(folders) THEN [ok |-> TRUE, tree |-> tmp]
  ELSE LET s == folders[i] IN
    IF ~HasFolder(src, s.name) \/ i = ioFailAt THEN [ok |-> FALSE, tree |-> tmp]
    ELSE IF s.kind = "folder"
      THEN copyToTempFolders(src, CopyPaths(src, tmp, FolderPaths(s.name)),
                             folders, i + 1, ioFailAt)
      ELSE LET r == copyToTempFiles(src, tmp, s.name, s.files, 1) IN
           IF r.ok THEN copyToTempFolders(src, r.tree, folders, i + 1, ioFailAt)
           ELSE r

copyToTemp(src, tmp, folders, ioFailAt) ==
  IF Len(folders) > 0 THEN copyToTempFolders(src, tmp, folders, 1, ioFailAt)
  ELSE IF ioFailAt # 0 THEN [ok |-> FALSE, tree |-> tmp]
  ELSE [ok |-> TRUE, tree |-> CopyPaths(src, tmp, AllPaths)]

\* ------------------------------------------------- copyFiles with folders
\* copySpecificFiles: ensureDir verifies that the target folder exists,
\* then each file in turn is checked at the source and copied.
copySpecificFiles(src, tgt, folder, files) ==
  IF ~HasFolder(tgt, folder) THEN [ok |-> FALSE, tree |-> tgt]
  ELSE copyToTempFiles(src, tgt, folder, files, 1)

\* copySpecificFolders: the loop over the selectors; ioFailAt as above.
RECURSIVE copySpecificFolders(_, _, _, _, _)
copySpecificFolders(src, tgt, folders, i, ioFailAt) ==
  IF i > Len(folders) THEN [ok |-> TRUE, tree |-> tgt]
  ELSE LET s == folders[i] IN
    IF ~HasFolder(src, s.name) \/ i = ioFailAt THEN [ok |-> FALSE, tree |-> tgt]
    ELSE IF s.kind = "folder"
      THEN copySpecificFolders(src, CopyPaths(src, tgt, FolderPaths(s.name)),
                               folders, i + 1, ioFailAt)
      ELSE LET r == copySpecificFiles(src, tgt, s.name, s.files) IN
           IF r.ok THEN copySpecificFolders(src, r.tree, folders, i + 1, ioFailAt)
           ELSE r

copyFiles(src, tgt, folders, ioFailAt) ==
  IF Len(folders) > 0 THEN copySpecificFolders(src, tgt, folders, 1, ioFailAt)
  ELSE IF ioFailAt # 0 THEN [ok |-> FALSE, tree |-> tgt]
  ELSE [ok |-> TRUE, tree |-> CopyPaths(src, tgt, AllPaths)]

\* SSHService.copyDir: the directory is walked over SFTP and every file in
\* it is copied by a command of its own ("cp" or "cmd.exe /c copy /y") run
\* on the session; cmds are the commands run.
copyDir(src, tgt) ==
  [tree |-> CopyPaths(src, tgt, AllPaths),
   cmds |-> {[op |-> "copy", path |-> p] : p \in FilesIn(src)}]

\* --------------------------------------------------------- deleteContents
\* The immediate children of a directory: its folders and top-level files.
TopEntries(t) ==
  {FolderOf(p) : p \in {q \in FilesIn(t) : FolderOf(q) # "."}}
    \cup {p \in FilesIn(t) : FolderOf(p) = "."}

EntryPaths(e) == IF e \in Folders THEN FolderPaths(e) ELSE {e}

\* Only the plain files among the entries are removed, folders are kept.
removeEntriesFilesOnly(t, es) ==
  [p \in AllPaths |-> IF p \in es THEN 0 ELSE t[p]]

\* fs.remove / deleteDir / deleteFile of each of the entries es.
removeEntries(t, es) ==
  [p \in AllPaths |-> IF \E e \in es : p \in EntryPaths(e) THEN 0 ELSE t[p]]

\* deleteLocalContents: nothing when the path does not exist, else every
\* entry of the listing is removed in turn; failAt is the entry whose
\* removal throws (0: none).
deleteLocalContents(exists, t, listing, failAt) ==
  IF ~exists THEN [ok |-> TRUE, tree |-> t]
  ELSE IF failAt \in 1..Len(listing)
  THEN [ok |-> FALSE,
        tree |-> removeEntries(t, {listing[i] : i \in 1..(failAt - 1)})]
  ELSE [ok |-> TRUE,
        tree |-> removeEntries(t, {listing[i] : i \in 1..Len(listing)})]

\* deleteSSHContents: readDir answers the empty list for a missing path.
deleteSSHContents(exists, t, listing, failAt) ==
  LET files == IF exists THEN listing ELSE <<>> IN
  IF failAt \in 1..Len(files)
  THEN [ok |-> FALSE,
        tree |-> removeEntries(t, {files[i] : i \in 1..(failAt - 1)})]
  ELSE [ok |-> TRUE,
        tree |-> removeEntries(t, {files[i] : i \in 1..Len(files)})]

deleteContents(remote, exists, t, listing, failAt) ==
  IF remote THEN deleteSSHContents(exists, t, listing, failAt)
  ELSE deleteLocalContents(exists, t, listing, failAt)

\* ----------------------------------------------------- generated scripts
\* generateCopyCommands: the copy commands of update.bat, in order.  A
\* checked command is followed by "if !errorlevel! equ 0 ... else goto :error".
RECURSIVE fileCopyCommands(_, _, _)
fileCopyCommands(folder, files, j) ==
  IF j > Len(files) THEN <<>>
  ELSE <<[op |-> "copy", folder |-> folder, file |-> files[j], checked |-> TRUE]>>
       \o fileCopyCommands(folder, files, j + 1)

RECURSIVE folderCopyCommands(_, _)
folderCopyCommands(folders, i) ==
  IF i > Len(folders) THEN <<>>
  ELSE LET s == folders[i] IN
    (IF s.kind = "folder"
     THEN <<[op |-> "xcopy", folder |-> s.name, file |-> "", checked |-> TRUE]>>
     ELSE <<[op |-> "mkdir", folder |-> s.name, file |-> "", checked |-> FALSE]>>
          \o fileCopyCommands(s.name, s.files, 1))
    \o folderCopyCommands(folders, i + 1)

generateCopyCommands(folders) ==
  IF Len(folders) > 0 THEN folderCopyCommands(folders, 1)
  ELSE << [op |-> "foreachdir", folder |-> "", file |-> "", checked |-> FALSE],
          [op |-> "foreachfile", folder |-> "", file |-> "", checked |-> FALSE] >>

\* The paths a copy command reads from staging.
CommandPaths(c) ==
  CASE c.op = "xcopy" -> FolderPaths(c.folder)
    [] c.op = "copy" -> FilePaths(c.folder, c.file)
    [] c.op = "foreachdir" -> {p \in AllPaths : FolderOf(p) # "."}
    [] c.op = "foreachfile" -> {p \in AllPaths : FolderOf(p) = "." /\ p \notin DotBat}
    [] OTHER -> {}

\* The backup root is kept as the sequence of its backup_* directories, the
\* most recently modified first: what
\* 'dir /b /ad /o-d "%backup_dir%\backup_*"' lists.
dirByDateDesc(bs) == bs

BackupNames(bs) == {bs[i].name : i \in 1..Len(bs)}

\* update.bat [3/4]: the for loop counts the listed directories and removes
\* each one counted beyond max_backups.
rotateInScript(bs, maxBackups) ==
  LET listed == dirByDateDesc(bs)
  IN  SelectSeq(listed, LAMBDA b : \E k \in 1..Len(listed) :
                                     listed[k] = b /\ ~(k > maxBackups))

\* restore.bat: latest_backup is the first directory listed (0: not defined).
findLatestBackup(rootExists, bs) ==
  IF ~rootExists \/ Len(bs) = 0 THEN 0 ELSE dirByDateDesc(bs)[1].name

\* The catch block of a cleanup step also pushes the message to errors.
cleanupErrorsPushed(errs, ok) == IF ok THEN errs ELSE Append(errs, "cleanup")

\* The catch block of a cleanup step (deploy step 4, restore's removal of
\* restore.bat) only warns: errors is left as it is.
cleanupErrors(errs, ok) == errs

\* ------------------------------------------------------------- run steps
\* Where control goes when a stage's catch block has recorded the error and
\* rethrown it: out of the try, into the finally block.
AfterFailureSwallowed(c, stage) ==
  IF c = "deploy"
  THEN CASE stage = 1 -> "d_transfer" [] stage = 2 -> "d_decompress"
         [] stage = 3 -> "d_bats" [] stage = 4 -> "d_exec" [] OTHER -> "d_cleanup"
  ELSE CASE stage = 1 -> "r_exec" [] OTHER -> "r_delete"

AfterFailure(c, stage) == IF c = "deploy" THEN "d_finally" ELSE "r_finally"

\* The stage of the deploy pipeline an operation belongs to.
StageOf(op) ==
  CASE op \in {"copyToTemp", "compressFiles"} -> 1
    [] op \in {"ensureDir", "deleteContents", "transferFile"} -> 2
    [] op = "decompressFilesRemote" -> 3
    [] op = "uploadWindowsBats" -> 4
    [] op = "execUpdate" -> 5
    [] op \in {"cleanupDeleteContents", "cleanupZips"} -> 6
    [] op = "uploadAndExecuteRestoreBat" -> 1
    [] op = "execRestore" -> 2
    [] OTHER -> 3

\* The local spawn's 'close' handler: resolve on code 0, reject otherwise.
localExecRejects(code, stderrSeen) == code # 0

\* SSHService.exec's 'close' handler: reject only on a non-zero code with
\* text on stderr; resolve with stdout otherwise.
sshExecRejects(code, stderrSeen) == code # 0 /\ stderrSeen

\* --------------------------------------------------------- session cache
Hosts == {"h1", "h2"}

NoSessions == [h \in Hosts |-> 0]

\* ensureSSHConnection: null for a local location, the cached session of the
\* location's host:port when there is one, else a new session that is cached
\* once connect() has resolved.  n is the number of sessions opened so far.
ensureSSHConnection(loc, c, n, connOk) ==
  IF loc = "local" \/ c[loc] # 0 THEN [ok |-> TRUE, cache |-> c, n |-> n, fresh |-> 0]
  ELSE IF connOk THEN [ok |-> TRUE, cache |-> [c EXCEPT ![loc] = n + 1],
                       n |-> n + 1, fresh |-> n + 1]
  ELSE [ok |-> FALSE, cache |-> c, n |-> n, fresh |-> 0]

\* How connect() of a new session settles: it resolves; the client reports
\* an error before it is ready; or the client becomes ready and the sftp
\* subsystem is refused, which rejects connect() too.
ConnectOutcomes == {"resolved", "error", "sftp refused"}

\* ensureSSHConnection with the three outcomes: a session whose connect()
\* rejects is not cached; fresh is the client that became ready.
ensureSSHConnectionOutcome(loc, c, n, outcome) ==
  IF outcome = "sftp refused" /\ loc # "local" /\ c[loc] = 0
  THEN [ok |-> FALSE, cache |-> c, n |-> n + 1, fresh |-> n + 1]
  ELSE ensureSSHConnection(loc, c, n, outcome = "resolved")

\* closeAllConnections: disconnect() every cached session and delete its key.
closeAllConnectionsFirstOnly(c, conn) ==
  LET ks == {h \in Hosts : c[h] # 0}
      k == CHOOSE h \in ks : TRUE
  IN  IF ks = {} THEN [cache |-> c, connected |-> conn]
      ELSE [cache |-> [c EXCEPT ![k] = 0], connected |-> conn \ {c[k]}]

closeAllConnections(c, conn) ==
  [cache |-> NoSessions, connected |-> conn \ {c[h] : h \in Hosts}]

\* "xcopy <dir>\* <target>\ /E /I /Q /Y": every file of the tree, at any depth.
xcopyTreeTopLevelOnly(t) == [p \in AllPaths |-> IF FolderOf(p) = "." THEN t[p] ELSE 0]

xcopyTree(t) == t

\* update.bat [1/4]: after the backup xcopy, errorlevel 0 goes on to the copy
\* commands, anything else jumps to :error.
afterBackupNoGoto(ok) == "u_copy"

afterBackup(ok) == IF ok THEN "u_copy" ELSE "u_error"

\* restore.bat: "if not defined latest_backup ( ... goto :error )".
afterFindNoGoto(latest) == "r_clean"

afterFind(latest) == IF latest = 0 THEN "r_error" ELSE "r_clean"

\* ---------------------------------------------------------- BackupService
\* An entry of the backup root is the timestamp of its "backup-<timestamp>"
\* name; 0 stands for an entry whose name has another prefix.
startsWithBackup(f) == f # 0

\* The orders in which a directory listing can return the entries.
RECURSIVE Listings(_)
Listings(S) ==
  IF S = {} THEN {<<>>}
  ELSE UNION {{<<x>> \o l : l \in Listings(S \ {x})} : x \in S}

getBackupsList(listing) == SelectSeq(listing, startsWithBackup)

\* The names are fixed-width timestamps: comparing them compares the times.
localeCompare(a, b) == IF a < b THEN -1 ELSE IF a > b THEN 1 ELSE 0

RECURSIVE insertSorted(_, _)
insertSorted(s, x) ==
  IF Len(s) = 0 THEN <<x>>
  ELSE IF localeCompare(x, s[1]) < 0 THEN <<x>> \o s
  ELSE <<s[1]>> \o insertSorted(Tail(s), x)

\* backups.sort((a, b) => a.localeCompare(b))
RECURSIVE sortByName(_)
sortByName(s) ==
  IF Len(s) = 0 THEN <<>> ELSE insertSorted(sortByName(Tail(s)), s[1])

\* Array.prototype.slice(from, to) for 0 <= from <= to: an end beyond the
\* length is the length.
slice(s, from, to) == SubSeq(s, from + 1, IF to > Len(s) THEN Len(s) ELSE to)

\* rotateBackups: the names to delete, oldest first.
toDeleteUnsorted(backups, maxBackups) ==
  slice(backups, 0, Len(backups) - maxBackups)

\* The first maxBackups names are taken instead of all but the last ones.
toDeleteFirstMax(backups, maxBackups) ==
  slice(sortByName(backups), 0, maxBackups)

toDelete(backups, maxBackups) ==
  slice(sortByName(backups), 0, Len(backups) - maxBackups)

\* rotateBackups over the root's entries as listed; failAt is the deletion
\* that throws (0: none does), leaving the earlier ones done.
rotateBackups(entries, listing, maxBackups, failAt) ==
  LET backups == getBackupsList(listing) IN
  IF Len(backups) <= maxBackups THEN [ok |-> TRUE, entries |-> entries]
  ELSE LET del == toDelete(backups, maxBackups)
           n == IF failAt = 0 \/ failAt > Len(del) THEN Len(del) ELSE failAt - 1
       IN  [ok |-> n = Len(del), entries |-> entries \ {del[i] : i \in 1..n}]

\* ---------------------------------------------------------------- state
VARIABLES
  source, scratch, localZip, zipTree, staging, stagingZip,
  dest, destExists, backupRoot, backups, clock, runs,
  cfg, pc, cmd, sels, errors, pending, opsDone, failedStage, success,
  closeCalls, preDest,
  cache, connected, nSess,
  spc, cmdIdx, exitCode, stderrOut, bkState, thisBackup, latestBackup, preRot,
  libRoot, libEntries, libMax, libClock, libLast, libPre, libNew,
  cpState, cpSource, cpFolders, cpBefore, cpTarget,
  cpRoot, cpRootBefore, execLog, cpCount, cpFailed,
  calls, logEvents,
  profile, config, batMax,
  session, requests, lastOp, remoteDirs, mkdirCall,
  procs, progress, hostCopy, deployResult, sharedDir

fsVars == <<source, scratch, localZip, zipTree, staging, stagingZip,
            dest, destExists, backupRoot, backups, clock, runs>>

runVars == <<cfg, pc, cmd, sels, errors, pending, opsDone, failedStage, success,
             closeCalls, preDest>>

sshVars == <<cache, connected, nSess>>

scriptVars == <<spc, cmdIdx, exitCode, stderrOut, bkState, thisBackup,
                latestBackup, preRot>>

libVars == <<libRoot, libEntries, libMax, libClock, libLast, libPre, libNew>>

copyVars == <<cpState, cpSource, cpFolders, cpBefore, cpTarget,
              cpRoot, cpRootBefore, execLog, cpCount, cpFailed>>

cfgVars == <<profile, config, batMax>>

svcVars == <<session, requests, lastOp, remoteDirs, mkdirCall>>

\* Other invocations of the tool running at the same time.
envVars == <<procs, progress, hostCopy, deployResult, sharedDir>>

vars == <<fsVars, runVars, sshVars, scriptVars, libVars, copyVars, calls,
          logEvents, cfgVars, svcVars, envVars>>

\* The profiles a run is started with: where the source and the staging
\* location live, and backup.maxBackups.
Configs ==
  { [source |-> l.source, staging |-> l.staging, maxBackups |-> k] :
      l \in { [source |-> "local", staging |-> "local"],
              [source |-> "h1", staging |-> "h2"] },
      k \in {1, 2} }

NoConfig == [source |-> "local", staging |-> "local", maxBackups |-> 1]

InitFs ==
  /\ source = SrcA
  /\ scratch = EmptyTree /\ localZip = FALSE /\ zipTree = EmptyTree
  /\ staging = EmptyTree /\ stagingZip = FALSE
  /\ runs = 0

\* An invocation that was not started.
NoProc ==
  [pc |-> "off", tree |-> EmptyTree, zip |-> FALSE, wiped |-> FALSE, ts |-> 0]

\* No archive is being transferred.
NoProgress ==
  [mode |-> "none", total |-> 0, done |-> 0, values |-> <<>>, state |-> "idle"]

\* No copy between two ssh locations: from, to are the hosts of the source
\* and the destination location, at[h] is what the destination path holds
\* on host h, on is the host of the session the copy was run on.
NoHostCopy ==
  [from |-> "h1", to |-> "h1", tree |-> EmptyTree,
   at |-> [h \in {"h1", "h2"} |-> EmptyTree], on |-> "none", count |-> 0,
   state |-> "idle"]

\* No deployCommand call whose result is followed: src, folders are the
\* source tree and the selectors of the call, sourceFiles and filesDeployed
\* the two locals of deployCommand, failed the number of errors pushed.
NoResult ==
  [src |-> EmptyTree, folders |-> <<>>, state |-> "idle", sourceFiles |-> 0,
   filesDeployed |-> 0, failed |-> 0, success |-> FALSE]

\* A backup root that neither the script nor BackupService has worked on.
\* entries: the directories of the root, each with its name, the time it
\* was made and who made it; last: the operation run last, pre: the entries
\* it found, seen: the names it enumerated as backups.
NoSharedDir ==
  [entries |-> {}, clock |-> 0, last |-> "none", pre |-> {}, seen |-> {}]

\* No second invocation runs, nothing is transferred.
InitEnvIdle ==
  /\ procs = [i \in 1..2 |-> NoProc]
  /\ progress = NoProgress
  /\ hostCopy = NoHostCopy
  /\ deployResult = NoResult /\ sharedDir = NoSharedDir

InitOneRun ==
  /\ cfg = NoConfig
  /\ pc = "idle" /\ cmd = "none" /\ sels = <<>> /\ errors = <<>>
  /\ pending = FALSE /\ opsDone = {} /\ failedStage = 0 /\ success = FALSE
  /\ closeCalls = 0
  /\ preDest = [exists |-> FALSE, tree |-> EmptyTree]
  /\ cache = NoSessions /\ connected = {} /\ nSess = 0
  /\ spc = "off" /\ cmdIdx = 0 /\ exitCode = -1 /\ stderrOut = FALSE
  /\ bkState = "none" /\ thisBackup = 0 /\ latestBackup = 0 /\ preRot = {}
  /\ logEvents = <<>>

\* No run was started, and it is the only invocation.
InitRun == InitOneRun /\ InitEnvIdle

InitLibIdle ==
  /\ libRoot = TRUE /\ libEntries = {} /\ libMax = 1 /\ libClock = 0
  /\ libLast = "none" /\ libPre = {} /\ libNew = 0

\* backup.maxBackups of a profile: absent, or the number written in the file.
NoMaxBackups == [set |-> FALSE, v |-> 0]

\* No profile is being loaded and no update.bat generated.
InitConfigIdle ==
  /\ profile = NoMaxBackups
  /\ config = [built |-> FALSE, maxBackups |-> 0]
  /\ batMax = [made |-> FALSE, v |-> 0]

\* A new SSHService: client and sftp are null, connect() was not called.
\* client: "null", "new" (a Client that is not connected), "ready";
\* connect: "none", "pending", "resolved", "rejected".
NewSession == [client |-> "null", sftp |-> FALSE, connect |-> "none"]

NoOp == [op |-> "none", outcome |-> "none"]

\* No mkdir call was made on the session.
NoMkdir == [path |-> <<>>, before |-> {}, created |-> {}, state |-> "none"]

InitSessionIdle ==
  /\ session = NewSession /\ requests = {} /\ lastOp = NoOp
  /\ remoteDirs = {} /\ mkdirCall = NoMkdir

\* An ensureSSHConnection call that has not been made.
NoCall == [st |-> "idle", loc |-> "local", user |-> "u1", ssh |-> 0, ret |-> 0]

\* No library copy call is in progress, and no concurrent
\* ensureSSHConnection calls.
InitCopyIdle ==
  /\ cpState = "idle" /\ cpSource = EmptyTree /\ cpFolders = <<>>
  /\ cpBefore = EmptyTree /\ cpTarget = EmptyTree
  /\ cpRoot = FALSE /\ cpRootBefore = FALSE /\ execLog = {}
  /\ cpCount = 0 /\ cpFailed = {}
  /\ calls = [i \in 1..MaxCalls |-> NoCall]
  /\ InitConfigIdle
  /\ InitSessionIdle

Init ==
  /\ InitFs /\ InitRun /\ InitLibIdle /\ InitCopyIdle
  /\ \E e \in BOOLEAN, b \in {<<>>, EarlierBackups} :
       /\ Len(b) > 0 => e
       /\ destExists = e
       /\ dest = IF e THEN DestLegacy ELSE EmptyTree
       /\ backups = b
       /\ backupRoot = (Len(b) > 0)
       /\ clock = Len(b)

\* ------------------------------------------------------- action fragments
\* A call of ensureSSHConnection(loc) inside a step.
Ensure(loc, connOk) ==
  LET r == ensureSSHConnection(loc, cache, nSess, connOk) IN
  /\ cache' = r.cache
  /\ nSess' = r.n
  /\ connected' = IF r.fresh # 0 THEN connected \cup {r.fresh} ELSE connected

Ensured(loc, connOk) == ensureSSHConnection(loc, cache, nSess, connOk).ok

\* A stage's catch block: errors.push(message) (once per enclosing catch),
\* then "throw err".
Fail(stage, msgs) ==
  /\ errors' = errors \o msgs
  /\ pending' = TRUE
  /\ failedStage' = IF failedStage = 0 THEN stage ELSE failedStage
  /\ pc' = AfterFailure(cmd, stage)

Pass(next) ==
  /\ pc' = next
  /\ UNCHANGED <<errors, pending, failedStage>>

\* ------------------------------------------------------- deployCommand
\* main() calls deployCommand(config, sourceFolders); the function creates
\* its FileOpsService and ensures .deploy-temp exists (inside the try).
StartDeploy(c, folders, tempOk) ==
  /\ pc = "idle" /\ runs < MaxRuns
  /\ runs' = runs + 1
  /\ cfg' = c /\ zipTree' = EmptyTree
  /\ cmd' = "deploy" /\ sels' = folders
  /\ preDest' = [exists |-> destExists, tree |-> dest]
  /\ IF tempOk THEN pc' = "d_stage" /\ pending' = FALSE
     ELSE pc' = "d_finally" /\ pending' = TRUE
  /\ UNCHANGED <<source, scratch, localZip, staging, stagingZip, dest,
                 destExists, backupRoot, backups, clock,
                 errors, opsDone, failedStage, success, closeCalls,
                 sshVars, scriptVars, libVars, copyVars, calls, logEvents, cfgVars, svcVars, envVars>>

\* Step 1, first half: copyToTemp(source, staging, folders, localTempDir).
DeployStage(connOk, ioFailAt) ==
  /\ pc = "d_stage"
  /\ Ensure(cfg.source, connOk)
  /\ opsDone' = opsDone \cup {"copyToTemp"}
  /\ LET r == IF Ensured(cfg.source, connOk)
              THEN copyToTemp(source, scratch, sels, ioFailAt)
              ELSE [ok |-> FALSE, tree |-> scratch]
     IN  /\ scratch' = r.tree
         /\ IF r.ok THEN Pass("d_compress") ELSE Fail(1, <<"compress">>)
  /\ UNCHANGED <<source, localZip, zipTree, staging, stagingZip, dest, destExists,
                 backupRoot, backups, clock, runs, cfg, cmd, sels, success, closeCalls,
                 preDest, scriptVars, libVars, copyVars, calls, logEvents, cfgVars, svcVars, envVars>>

\* Step 1, second half: compressFiles(localTempDir, localZipPath).  Zip files
\* lying in the temp directory are removed, then 7-Zip archives the directory.
DeployCompress(ok) ==
  /\ pc = "d_compress"
  /\ opsDone' = opsDone \cup {"compressFiles"}
  /\ scratch' = removeZips(scratch)
  /\ IF ok
     THEN /\ localZip' = TRUE /\ zipTree' = removeZips(scratch)
          /\ Pass("d_transfer")
     ELSE /\ localZip' = FALSE /\ UNCHANGED zipTree
          /\ Fail(1, <<"compress">>)
  /\ UNCHANGED <<source, staging, stagingZip, dest, destExists,
                 backupRoot, backups, clock, runs, cfg, cmd, sels, success, closeCalls,
                 preDest, sshVars, scriptVars, libVars, copyVars, calls, logEvents, cfgVars, svcVars, envVars>>

\* Step 2: ensureDir(staging), deleteContents(staging), transferFile(...).
\* failAt names the call that throws ("none": the stage succeeds).
DeployTransfer(connOk, failAt) ==
  /\ pc = "d_transfer"
  /\ Ensure(cfg.staging, connOk)
  /\ LET at == IF Ensured(cfg.staging, connOk) THEN failAt ELSE "ensureDir" IN
     /\ opsDone' = opsDone \cup
          CASE at = "ensureDir" -> {"ensureDir"}
            [] at = "deleteContents" -> {"ensureDir", "deleteContents"}
            [] OTHER -> {"ensureDir", "deleteContents", "transferFile"}
     /\ staging' = IF at \in {"ensureDir", "deleteContents"} THEN staging ELSE EmptyTree
     /\ stagingZip' = IF at = "none" THEN TRUE
                      ELSE IF at = "transferFile" THEN FALSE ELSE stagingZip
     /\ IF at = "none" THEN Pass("d_decompress") ELSE Fail(2, <<"transfer">>)
  /\ UNCHANGED <<source, scratch, localZip, zipTree, dest, destExists,
                 backupRoot, backups, clock, runs, cfg, cmd, sels, success, closeCalls,
                 preDest, scriptVars, libVars, copyVars, calls, logEvents, cfgVars, svcVars, envVars>>

\* Step 3: decompressFilesRemote(staging, zipFileName): extract in place,
\* then delete the archive.
DeployDecompress(ok) ==
  /\ pc = "d_decompress"
  /\ opsDone' = opsDone \cup {"decompressFilesRemote"}
  /\ IF ok
     THEN /\ staging' = CopyPaths(zipTree, staging, AllPaths)
          /\ stagingZip' = FALSE
          /\ Pass("d_bats")
     ELSE /\ UNCHANGED <<staging, stagingZip>>
          /\ Fail(3, <<"decompress">>)
  /\ UNCHANGED <<source, scratch, localZip, zipTree, dest, destExists,
                 backupRoot, backups, clock, runs, cfg, cmd, sels, success, closeCalls,
                 preDest, sshVars, scriptVars, libVars, copyVars, calls, logEvents, cfgVars, svcVars, envVars>>

\* Step 3.5, first half: uploadWindowsBats writes update.bat and restore.bat
\* into the local temp directory, then copies or uploads them to staging.
DeployBats(ok) ==
  /\ pc = "d_bats"
  /\ opsDone' = opsDone \cup {"uploadWindowsBats"}
  /\ scratch' = [scratch EXCEPT !["update.bat"] = 1, !["restore.bat"] = 1]
  /\ IF ok
     THEN /\ staging' = [staging EXCEPT !["update.bat"] = 1, !["restore.bat"] = 1]
          /\ Pass("d_exec")
     ELSE /\ UNCHANGED staging
          /\ Fail(4, <<"bats">>)
  /\ UNCHANGED <<source, localZip, zipTree, stagingZip, dest, destExists,
                 backupRoot, backups, clock, runs, cfg, cmd, sels, success, closeCalls,
                 preDest, sshVars, scriptVars, libVars, copyVars, calls, logEvents, cfgVars, svcVars, envVars>>

\* Step 3.5, second half: update.bat is started on the staging host (a local
\* elevated process, or ssh.exec); it takes its timestamp as it starts.  The
\* inner catch and the enclosing catch each push the message.
DeployExec(started) ==
  /\ pc = "d_exec"
  /\ opsDone' = opsDone \cup {"execUpdate"}
  /\ IF started
     THEN /\ spc' = "u_backup" /\ clock' = clock + 1
          /\ Pass("d_wait")
     ELSE /\ UNCHANGED <<spc, clock>>
          /\ Fail(5, <<"exec", "bats">>)
  /\ UNCHANGED <<source, scratch, localZip, zipTree, staging, stagingZip, dest,
                 destExists, backupRoot, backups, runs, cfg, cmd, sels, success,
                 closeCalls, preDest, sshVars, cmdIdx, exitCode, stderrOut,
                 bkState, thisBackup, latestBackup, preRot, libVars, copyVars, calls, logEvents, cfgVars, svcVars, envVars>>

\* The script has exited: the promise resolves or rejects on its exit code.
DeployExecDone ==
  /\ pc = "d_wait" /\ spc = "exited"
  /\ IF (IF cfg.staging = "local" THEN localExecRejects(exitCode, stderrOut)
         ELSE sshExecRejects(exitCode, stderrOut))
     THEN Fail(5, <<"exec", "bats">>)
     ELSE Pass("d_cleanup")
  /\ UNCHANGED <<fsVars, cfg, cmd, sels, opsDone, success, closeCalls, preDest,
                 sshVars, scriptVars, libVars, copyVars, calls, logEvents, cfgVars, svcVars, envVars>>

\* Step 4: deleteContents(staging), then the zip files of the temp directory
\* are removed.  Every failure here is caught and logged as a warning.
DeployCleanup(wipeOk, zipOk) ==
  /\ pc = "d_cleanup"
  /\ opsDone' = opsDone \cup
       (IF wipeOk THEN {"cleanupDeleteContents", "cleanupZips"}
        ELSE {"cleanupDeleteContents"})
  /\ staging' = IF wipeOk THEN EmptyTree ELSE staging
  /\ localZip' = IF wipeOk /\ zipOk THEN FALSE ELSE localZip
  /\ errors' = cleanupErrors(errors, wipeOk /\ zipOk)
  /\ pc' = "d_finally"
  /\ UNCHANGED <<pending, failedStage>>
  /\ UNCHANGED <<source, scratch, zipTree, stagingZip, dest, destExists, backupRoot,
                 backups, clock, runs, cfg, cmd, sels, success, closeCalls, preDest,
                 sshVars, scriptVars, libVars, copyVars, calls, logEvents, cfgVars, svcVars, envVars>>

\* finally { await fileOps.closeAllConnections(); } - then the pending
\* exception, if any, leaves deployCommand.
DeployFinally ==
  /\ pc = "d_finally"
  /\ LET r == closeAllConnections(cache, connected) IN
     /\ cache' = r.cache /\ connected' = r.connected
  /\ closeCalls' = closeCalls + 1
  /\ pc' = IF pending THEN "thrown" ELSE "d_summary"
  /\ UNCHANGED <<fsVars, cfg, cmd, sels, errors, pending, opsDone, failedStage,
                 success, preDest, nSess, scriptVars, libVars, copyVars, calls, logEvents, cfgVars, svcVars, envVars>>

\* The result is built (success: errors.length === 0), the summary logged,
\* the log saved, and the result returned; logger.save() throws when the
\* log files cannot be written.
DeployReturn(saveOk) ==
  /\ pc = "d_summary"
  /\ success' = (Len(errors) = 0)
  /\ logEvents' = IF saveOk THEN <<"completed", "saved">> ELSE <<"completed">>
  /\ pc' = IF saveOk THEN "returned" ELSE "thrown"
  /\ UNCHANGED <<fsVars, cfg, cmd, sels, errors, pending, opsDone, failedStage,
                 closeCalls, preDest, sshVars, scriptVars, libVars, copyVars, calls, cfgVars, svcVars, envVars>>

\* ------------------------------------------------------ restoreCommand
StartRestore(c) ==
  /\ pc = "idle" /\ runs < MaxRuns
  /\ runs' = runs + 1
  /\ cfg' = c /\ zipTree' = EmptyTree
  /\ cmd' = "restore" /\ sels' = <<>>
  /\ preDest' = [exists |-> destExists, tree |-> dest]
  /\ pc' = "r_upload"
  /\ UNCHANGED <<source, scratch, localZip, staging, stagingZip, dest,
                 destExists, backupRoot, backups, clock,
                 errors, pending, opsDone, failedStage, success,
                 closeCalls, sshVars, scriptVars, libVars, copyVars, calls, logEvents, cfgVars, svcVars, envVars>>

\* Step 1: uploadAndExecuteRestoreBat writes restore.bat into .deploy-temp,
\* then copies or uploads it to staging.
RestoreUpload(connOk, ok) ==
  /\ pc = "r_upload"
  /\ opsDone' = opsDone \cup {"uploadAndExecuteRestoreBat"}
  /\ scratch' = [scratch EXCEPT !["restore.bat"] = 1]
  /\ Ensure(cfg.staging, connOk)
  /\ IF ok /\ Ensured(cfg.staging, connOk)
     THEN /\ staging' = [staging EXCEPT !["restore.bat"] = 1]
          /\ Pass("r_exec")
     ELSE /\ UNCHANGED staging
          /\ Fail(1, <<"upload">>)
  /\ UNCHANGED <<source, localZip, zipTree, stagingZip, dest, destExists,
                 backupRoot, backups, clock, runs, cfg, cmd, sels, success, closeCalls,
                 preDest, scriptVars, libVars, copyVars, calls, logEvents, cfgVars, svcVars, envVars>>

\* Step 2: restore.bat is started on the staging host.
RestoreExec(started) ==
  /\ pc = "r_exec"
  /\ opsDone' = opsDone \cup {"execRestore"}
  /\ IF started
     THEN /\ spc' = "r_find"
          /\ Pass("r_wait")
     ELSE /\ UNCHANGED spc
          /\ Fail(2, <<"exec">>)
  /\ UNCHANGED <<fsVars, cfg, cmd, sels, success, closeCalls, preDest, sshVars,
                 cmdIdx, exitCode, stderrOut, bkState, thisBackup, latestBackup,
                 preRot, libVars, copyVars, calls, logEvents, cfgVars, svcVars, envVars>>

RestoreExecDone ==
  /\ pc = "r_wait" /\ spc = "exited"
  /\ IF (IF cfg.staging = "local" THEN localExecRejects(exitCode, stderrOut)
         ELSE sshExecRejects(exitCode, stderrOut))
     THEN Fail(2, <<"exec">>)
     ELSE Pass("r_delete")
  /\ UNCHANGED <<fsVars, cfg, cmd, sels, opsDone, success, closeCalls, preDest,
                 sshVars, scriptVars, libVars, copyVars, calls, logEvents, cfgVars, svcVars, envVars>>

\* Step 3: deleteRestoreBat(staging); the removal's own failure is swallowed.
RestoreDelete(ok) ==
  /\ pc = "r_delete"
  /\ opsDone' = opsDone \cup {"deleteRestoreBat"}
  /\ staging' = IF ok THEN [staging EXCEPT !["restore.bat"] = 0] ELSE staging
  /\ errors' = cleanupErrors(errors, ok)
  /\ pc' = "r_finally"
  /\ UNCHANGED <<pending, failedStage>>
  /\ UNCHANGED <<source, scratch, localZip, zipTree, stagingZip, dest, destExists,
                 backupRoot, backups, clock, runs, cfg, cmd, sels, success, closeCalls,
                 preDest, sshVars, scriptVars, libVars, copyVars, calls, logEvents, cfgVars, svcVars, envVars>>

RestoreFinally ==
  /\ pc = "r_finally"
  /\ LET r == closeAllConnections(cache, connected) IN
     /\ cache' = r.cache /\ connected' = r.connected
  /\ closeCalls' = closeCalls + 1
  /\ pc' = IF pending THEN "thrown" ELSE "r_summary"
  /\ UNCHANGED <<fsVars, cfg, cmd, sels, errors, pending, opsDone, failedStage,
                 success, preDest, nSess, scriptVars, libVars, copyVars, calls, logEvents, cfgVars, svcVars, envVars>>

RestoreReturn(saveOk) ==
  /\ pc = "r_summary"
  /\ success' = (Len(errors) = 0)
  /\ logEvents' = IF saveOk THEN <<"completed", "saved">> ELSE <<"completed">>
  /\ pc' = IF saveOk THEN "returned" ELSE "thrown"
  /\ UNCHANGED <<fsVars, cfg, cmd, sels, errors, pending, opsDone, failedStage,
                 closeCalls, preDest, sshVars, scriptVars, libVars, copyVars, calls, cfgVars, svcVars, envVars>>

\* main(): process.exit(...) after the command returned, or from the catch
\* block after it threw.  The next invocation is a new process.
ProcessExit ==
  /\ pc \in {"returned", "thrown"}
  /\ cfg' = NoConfig /\ zipTree' = EmptyTree
  /\ pc' = "idle" /\ cmd' = "none" /\ sels' = <<>> /\ errors' = <<>>
  /\ pending' = FALSE /\ opsDone' = {} /\ failedStage' = 0 /\ success' = FALSE
  /\ closeCalls' = 0
  /\ preDest' = [exists |-> FALSE, tree |-> EmptyTree]
  /\ cache' = NoSessions /\ connected' = {} /\ nSess' = 0
  /\ spc' = "off" /\ cmdIdx' = 0 /\ exitCode' = -1 /\ stderrOut' = FALSE
  /\ bkState' = "none" /\ thisBackup' = 0 /\ latestBackup' = 0 /\ preRot' = {}
  /\ logEvents' = <<>>
  /\ UNCHANGED <<source, scratch, localZip, staging, stagingZip, dest,
                 destExists, backupRoot, backups, clock, runs, libVars, copyVars, calls, cfgVars, svcVars, envVars>>

\* ---------------------------------------------------- update.bat at work
\* [1/4] The backup root is created when missing; when the destination
\* exists it is copied to backup_<timestamp>.  A failed xcopy may have
\* written to stderr (se).
UpdateBackup(ok, se) ==
  /\ spc = "u_backup"
  /\ backupRoot' = TRUE
  /\ cmdIdx' = 1
  /\ IF destExists
     THEN /\ backups' =
               IF ok THEN <<[name |-> clock, tree |-> xcopyTree(dest)]>> \o backups
               ELSE backups
          /\ bkState' = IF ok THEN "ok" ELSE "failed"
          /\ thisBackup' = IF ok THEN clock ELSE 0
          /\ stderrOut' = (~ok /\ se)
          /\ spc' = afterBackup(ok)
     ELSE /\ bkState' = "skipped" /\ spc' = "u_copy"
          /\ UNCHANGED <<backups, thisBackup, stderrOut>>
  /\ UNCHANGED <<source, scratch, localZip, zipTree, staging, stagingZip, dest,
                 destExists, clock, runs, runVars, sshVars, exitCode, latestBackup,
                 preRot, libVars, copyVars, calls, logEvents, cfgVars, svcVars, envVars>>

\* [2/4] with selectors: one xcopy / mkdir / copy command.  A checked command
\* that fails jumps to :error; "if not exist ... mkdir" is not checked.
UpdateCopyCommand(ok, se) ==
  /\ spc = "u_copy" /\ Len(sels) > 0
  /\ cmdIdx <= Len(generateCopyCommands(sels))
  /\ LET c == generateCopyCommands(sels)[cmdIdx]
         good == ok /\ (c.op = "mkdir" \/ \E p \in CommandPaths(c) : staging[p] # 0)
     IN  /\ dest' = IF good THEN CopyPaths(staging, dest, CommandPaths(c)) ELSE dest
         /\ destExists' = (destExists \/ good)
         /\ IF good \/ ~c.checked
            THEN cmdIdx' = cmdIdx + 1 /\ UNCHANGED <<spc, stderrOut>>
            ELSE spc' = "u_error" /\ stderrOut' = se /\ UNCHANGED cmdIdx
  /\ UNCHANGED <<source, scratch, localZip, zipTree, staging, stagingZip,
                 backupRoot, backups, clock, runs, runVars, sshVars, exitCode, bkState,
                 thisBackup, latestBackup, preRot, libVars, copyVars, calls, logEvents, cfgVars, svcVars, envVars>>

\* [2/4] without selectors: "for /d" xcopies every staging sub-directory and
\* "for" copies every top-level file that is no .bat; no errorlevel is
\* tested, so the xcopy of any sub-directory may fail unnoticed (done: the
\* sub-directories whose xcopy succeeded).
UpdateCopyAll(done) ==
  /\ spc = "u_copy" /\ Len(sels) = 0
  /\ cmdIdx <= Len(generateCopyCommands(sels))
  /\ LET c == generateCopyCommands(sels)[cmdIdx]
         ps == {p \in CommandPaths(c) : FolderOf(p) \in done \cup {"."}}
     IN  /\ dest' = CopyPaths(staging, dest, ps)
         /\ destExists' = (destExists \/ \E p \in ps : staging[p] # 0)
  /\ cmdIdx' = cmdIdx + 1
  /\ UNCHANGED <<source, scratch, localZip, zipTree, staging, stagingZip,
                 backupRoot, backups, clock, runs, runVars, sshVars, spc, exitCode,
                 stderrOut, bkState, thisBackup, latestBackup, preRot, libVars, copyVars, calls, logEvents, cfgVars, svcVars, envVars>>

\* [3/4] rotation, [4/4] the log line, "exit /b 0".
UpdateRotate ==
  /\ spc = "u_copy" /\ cmdIdx > Len(generateCopyCommands(sels))
  /\ preRot' = BackupNames(backups)
  /\ backups' = rotateInScript(backups, cfg.maxBackups)
  /\ exitCode' = 0
  /\ spc' = "exited"
  /\ UNCHANGED <<source, scratch, localZip, zipTree, staging, stagingZip, dest,
                 destExists, backupRoot, clock, runs, runVars, sshVars, cmdIdx,
                 stderrOut, bkState, thisBackup, latestBackup, libVars, copyVars, calls, logEvents, cfgVars, svcVars, envVars>>

\* :error - the failure is logged, "exit /b 1".
UpdateError ==
  /\ spc = "u_error"
  /\ exitCode' = 1
  /\ spc' = "exited"
  /\ UNCHANGED <<fsVars, runVars, sshVars, cmdIdx, stderrOut, bkState,
                 thisBackup, latestBackup, preRot, libVars, copyVars, calls, logEvents, cfgVars, svcVars, envVars>>

\* --------------------------------------------------- restore.bat at work
\* The backup root must exist and hold a backup_* directory; the one listed
\* first becomes latest_backup.  Both error branches only echo.
RestoreFind ==
  /\ spc = "r_find"
  /\ latestBackup' = findLatestBackup(backupRoot, backups)
  /\ spc' = afterFind(findLatestBackup(backupRoot, backups))
  /\ UNCHANGED <<fsVars, runVars, sshVars, cmdIdx, exitCode, stderrOut, bkState,
                 thisBackup, preRot, libVars, copyVars, calls, logEvents, cfgVars, svcVars, envVars>>

\* [1/2] "rd /s /q" the destination when it exists, then mkdir; neither
\* command's errorlevel is tested.
RestoreClean(rdOk, mkOk) ==
  /\ spc = "r_clean"
  /\ LET removed == destExists /\ rdOk IN
     /\ dest' = IF removed THEN EmptyTree ELSE dest
     /\ destExists' = IF destExists /\ ~removed THEN TRUE ELSE mkOk
  /\ spc' = "r_copy"
  /\ UNCHANGED <<source, scratch, localZip, zipTree, staging, stagingZip,
                 backupRoot, backups, clock, runs, runVars, sshVars, cmdIdx, exitCode,
                 stderrOut, bkState, thisBackup, latestBackup, preRot, libVars, copyVars, calls, logEvents, cfgVars, svcVars, envVars>>

\* [2/2] xcopy of the backup into the destination; on errorlevel 0 the log
\* line and "exit /b 0", else :error.
RestoreCopy(ok, se) ==
  /\ spc = "r_copy"
  /\ LET from == IF latestBackup \in BackupNames(backups)
                 THEN backups[CHOOSE i \in 1..Len(backups) :
                                backups[i].name = latestBackup].tree
                 ELSE EmptyTree
     IN  IF ok
         THEN /\ dest' = CopyPaths(xcopyTree(from), dest, AllPaths)
              /\ destExists' = TRUE
              /\ exitCode' = 0 /\ spc' = "exited"
              /\ UNCHANGED stderrOut
         ELSE /\ spc' = "r_error" /\ stderrOut' = se
              /\ UNCHANGED <<dest, destExists, exitCode>>
  /\ UNCHANGED <<source, scratch, localZip, zipTree, staging, stagingZip,
                 backupRoot, backups, clock, runs, runVars, sshVars, cmdIdx, bkState,
                 thisBackup, latestBackup, preRot, libVars, copyVars, calls, logEvents, cfgVars, svcVars, envVars>>

RestoreError ==
  /\ spc = "r_error"
  /\ exitCode' = 1
  /\ spc' = "exited"
  /\ UNCHANGED <<fsVars, runVars, sshVars, cmdIdx, stderrOut, bkState,
                 thisBackup, latestBackup, preRot, libVars, copyVars, calls, logEvents, cfgVars, svcVars, envVars>>

\* ------------------------------------------------------- the environment
\* Between two runs the operator changes the source tree.
ChangeSource(t) ==
  /\ pc = "idle" /\ source # t
  /\ source' = t
  /\ UNCHANGED <<scratch, localZip, zipTree, staging, stagingZip, dest,
                 destExists, backupRoot, backups, clock, runs, runVars, sshVars,
                 scriptVars, libVars, copyVars, calls, logEvents, cfgVars, svcVars, envVars>>

\* Between two runs an entry is added to or removed from a backup directory
\* on the host, which sets the directory's modification time that
\* "dir /o-d" sorts by.
TouchBackup(i) ==
  /\ pc = "idle"
  /\ i \in 2..Len(backups)
  /\ backups' = <<backups[i]>> \o SubSeq(backups, 1, i - 1)
                   \o SubSeq(backups, i + 1, Len(backups))
  /\ UNCHANGED <<source, scratch, localZip, zipTree, staging, stagingZip, dest,
                 destExists, backupRoot, clock, runs, runVars, sshVars,
                 scriptVars, libVars, copyVars, calls, logEvents, cfgVars, svcVars, envVars>>

Next ==
  \/ \E c \in Configs, f \in SelectorLists, t \in BOOLEAN : StartDeploy(c, f, t)
  \/ \E c \in BOOLEAN, i \in 0..2 : i <= Len(sels) + 1 /\ DeployStage(c, i)
  \/ \E ok \in BOOLEAN : DeployCompress(ok)
  \/ \E c \in BOOLEAN, at \in {"none", "ensureDir", "deleteContents", "transferFile"} :
       DeployTransfer(c, at)
  \/ \E ok \in BOOLEAN : DeployDecompress(ok)
  \/ \E ok \in BOOLEAN : DeployBats(ok)
  \/ \E st \in BOOLEAN : DeployExec(st)
  \/ DeployExecDone
  \/ \E w \in BOOLEAN, z \in BOOLEAN : DeployCleanup(w, z)
  \/ DeployFinally
  \/ \E ok \in BOOLEAN : DeployReturn(ok)
  \/ \E c \in Configs : StartRestore(c)
  \/ \E c \in BOOLEAN, ok \in BOOLEAN : RestoreUpload(c, ok)
  \/ \E st \in BOOLEAN : RestoreExec(st)
  \/ RestoreExecDone
  \/ \E ok \in BOOLEAN : RestoreDelete(ok)
  \/ RestoreFinally
  \/ \E ok \in BOOLEAN : RestoreReturn(ok)
  \/ ProcessExit
  \/ \E ok \in BOOLEAN, se \in BOOLEAN : UpdateBackup(ok, se)
  \/ \E ok \in BOOLEAN, se \in BOOLEAN : UpdateCopyCommand(ok, se)
  \/ \E done \in SUBSET Folders : UpdateCopyAll(done)
  \/ UpdateRotate
  \/ UpdateError
  \/ RestoreFind
  \/ \E rd \in BOOLEAN, mk \in BOOLEAN : RestoreClean(rd, mk)
  \/ \E ok \in BOOLEAN, se \in BOOLEAN : RestoreCopy(ok, se)
  \/ RestoreError
  \/ \E t \in SourceTrees : ChangeSource(t)
  \/ \E i \in 1..Len(backups) : TouchBackup(i)

Spec == Init /\ [][Next]_vars

\* ------------------------------------------- BackupService as a library
\* createBackup(source, backupConfig) at time ts: skip when the source is
\* missing; throw when the backup root is missing or the copy fails (the
\* copy may have made the new directory already); otherwise rotate.
createBackup(sourceExists, ts, copyOk, made, listing, failAt) ==
  /\ ts > libClock /\ ts <= MaxTs
  /\ libClock' = ts
  /\ libPre' = libEntries
  /\ IF ~sourceExists
     THEN libLast' = "skipped" /\ libNew' = 0 /\ UNCHANGED libEntries
     ELSE IF ~libRoot
     THEN libLast' = "threw" /\ libNew' = 0 /\ UNCHANGED libEntries
     ELSE IF ~copyOk
     THEN /\ libLast' = "threw" /\ libNew' = 0
          /\ libEntries' = IF made THEN libEntries \cup {ts} ELSE libEntries
     ELSE LET r == rotateBackups(libEntries \cup {ts}, listing, libMax, failAt) IN
          /\ Len(listing) = Cardinality(libEntries \cup {ts})
          /\ {listing[i] : i \in 1..Len(listing)} = libEntries \cup {ts}
          /\ libEntries' = r.entries
          /\ libNew' = ts
          /\ libLast' = IF r.ok THEN "rotated" ELSE "threw"
  /\ UNCHANGED <<fsVars, runVars, sshVars, scriptVars, libRoot, libMax, copyVars, calls, logEvents, cfgVars, svcVars, envVars>>

InitBackup ==
  /\ InitFs /\ InitRun
  /\ destExists = FALSE /\ dest = EmptyTree
  /\ backups = <<>> /\ backupRoot = FALSE /\ clock = 0
  /\ libRoot \in BOOLEAN
  /\ libEntries \in (IF libRoot THEN {{}, {0}} ELSE {{}})
  /\ libMax \in 1..(MaxTs - 1)
  /\ libClock = 0 /\ libLast = "none" /\ libPre = {} /\ libNew = 0
  /\ InitCopyIdle

\* rotateBackups(backupDir, maxBackups) once more, after a rotation that
\* completed and with no backup created in between.
rotateAgain(listing, failAt) ==
  /\ libLast \in {"rotated", "rotated again"}
  /\ Len(listing) = Cardinality(libEntries)
  /\ {listing[i] : i \in 1..Len(listing)} = libEntries
  /\ LET r == rotateBackups(libEntries, listing, libMax, failAt) IN
     /\ libEntries' = r.entries
     /\ libLast' = IF r.ok THEN "rotated again" ELSE "rotate threw"
  /\ UNCHANGED <<fsVars, runVars, sshVars, scriptVars, libRoot, libMax,
                 libClock, libPre, libNew, copyVars, calls, logEvents, cfgVars, svcVars, envVars>>

NextBackup ==
  \/ \E se \in BOOLEAN, ts \in 1..MaxTs, ok \in BOOLEAN, made \in BOOLEAN,
        failAt \in 0..2 :
       \E listing \in (IF se /\ libRoot /\ ok
                       THEN Listings(libEntries \cup {ts}) ELSE {<<>>}) :
         createBackup(se, ts, ok, made, listing, failAt)
  \/ \E failAt \in 0..2 : \E listing \in Listings(libEntries) :
       rotateAgain(listing, failAt)

SpecBackup == InitBackup /\ [][NextBackup]_vars

\* ------------------------------------ backup.maxBackups, profile to rotation
ProfileMaxBackups ==
  {NoMaxBackups} \cup {[set |-> TRUE, v |-> n] : n \in (0 - MaxNegative)..(MaxTs - 1)}

\* buildConfigFromProfile: "profile.backup.maxBackups || 3".
buildConfigFromProfile(p) == IF ~p.set \/ p.v = 0 THEN 3 ELSE p.v

\* generateUpdateBat: "backup.maxBackups ?? 3", written as max_backups.
maxBackupsOfBat(b) == IF ~b.set THEN 3 ELSE b.v

InitConfig ==
  /\ InitFs /\ InitRun
  /\ destExists = FALSE /\ dest = EmptyTree
  /\ backups = <<>> /\ backupRoot = FALSE /\ clock = 0
  /\ libRoot \in BOOLEAN
  /\ libEntries = {}
  /\ libMax = 1
  /\ libClock = 0 /\ libLast = "none" /\ libPre = {} /\ libNew = 0
  /\ cpState = "idle" /\ cpSource = EmptyTree /\ cpFolders = <<>>
  /\ cpBefore = EmptyTree /\ cpTarget = EmptyTree
  /\ cpRoot = FALSE /\ cpRootBefore = FALSE /\ execLog = {}
  /\ cpCount = 0 /\ cpFailed = {}
  /\ calls = [i \in 1..MaxCalls |-> NoCall]
  /\ profile \in ProfileMaxBackups
  /\ config = [built |-> FALSE, maxBackups |-> 0]
  /\ batMax = [made |-> FALSE, v |-> 0]
  /\ InitSessionIdle

\* The active profile becomes the configuration; its backup part is what
\* createBackup is called with.
BuildConfig ==
  /\ ~config.built
  /\ config' = [built |-> TRUE, maxBackups |-> buildConfigFromProfile(profile)]
  /\ libMax' = buildConfigFromProfile(profile)
  /\ UNCHANGED <<fsVars, runVars, sshVars, scriptVars, libRoot, libEntries,
                 libClock, libLast, libPre, libNew, copyVars, calls, logEvents,
                 profile, batMax, svcVars, envVars>>

\* uploadWindowsBats generates update.bat from config.backup.
GenerateUpdateBat ==
  /\ config.built /\ ~batMax.made
  /\ batMax' = [made |-> TRUE,
                v |-> maxBackupsOfBat([set |-> TRUE, v |-> config.maxBackups])]
  /\ UNCHANGED <<fsVars, runVars, sshVars, scriptVars, libVars, copyVars, calls,
                 logEvents, profile, config, svcVars, envVars>>

NextConfig ==
  \/ BuildConfig
  \/ GenerateUpdateBat
  \/ /\ config.built
     /\ \E se \in BOOLEAN, ts \in 1..MaxTs, ok \in BOOLEAN, made \in BOOLEAN,
           failAt \in 0..2 :
          \E listing \in (IF se /\ libRoot /\ ok
                          THEN Listings(libEntries \cup {ts}) ELSE {<<>>}) :
            createBackup(se, ts, ok, made, listing, failAt)

SpecConfig == InitConfig /\ [][NextConfig]_vars

\* ------------------------------ update.bat without selectors, copies done
\* The source trees deployed: folders, and a top-level .bat file or not.
StagedTrees ==
  {[p \in AllPaths |-> IF p \in ps THEN 1 ELSE 0] :
     ps \in SUBSET (SrcPaths \cup UserBatPaths)}

\* A first deploy without selectors that has uploaded its scripts and
\* started update.bat.
InitScript ==
  /\ \E t \in StagedTrees :
       /\ source = t /\ zipTree = t
       /\ scratch = [t EXCEPT !["update.bat"] = 1, !["restore.bat"] = 1]
       /\ staging = [t EXCEPT !["update.bat"] = 1, !["restore.bat"] = 1]
  /\ localZip = TRUE /\ stagingZip = FALSE
  /\ \E e \in BOOLEAN :
       /\ destExists = e
       /\ dest = IF e THEN DestLegacy ELSE EmptyTree
       /\ preDest = [exists |-> e, tree |-> IF e THEN DestLegacy ELSE EmptyTree]
  /\ backupRoot = FALSE /\ backups = <<>> /\ clock = 1 /\ runs = 1
  /\ cfg \in {c \in Configs : c.source = "local"}
  /\ pc = "d_wait" /\ cmd = "deploy" /\ sels = <<>> /\ errors = <<>>
  /\ pending = FALSE /\ failedStage = 0 /\ success = FALSE
  /\ opsDone = {"copyToTemp", "compressFiles", "ensureDir", "deleteContents",
                "transferFile", "decompressFilesRemote", "uploadWindowsBats",
                "execUpdate"}
  /\ closeCalls = 0
  /\ cache = NoSessions /\ connected = {} /\ nSess = 0
  /\ spc = "u_backup" /\ cmdIdx = 0 /\ exitCode = -1 /\ stderrOut = FALSE
  /\ bkState = "none" /\ thisBackup = 0 /\ latestBackup = 0 /\ preRot = {}
  /\ logEvents = <<>>
  /\ InitEnvIdle
  /\ InitLibIdle /\ InitCopyIdle

\* update.bat runs to its exit; every xcopy and copy of [2/4] succeeds.
NextScript ==
  \/ \E ok \in BOOLEAN, se \in BOOLEAN : UpdateBackup(ok, se)
  \/ UpdateCopyAll(Folders)
  \/ UpdateRotate
  \/ UpdateError

SpecScript == InitScript /\ [][NextScript]_vars

\* --------------------------------------- a deploy, then restore runs only
\* The deploy of InitScript goes on to its end; the invocations after it
\* are restores.
NextDeployRestore ==
  \/ NextScript
  \/ DeployExecDone
  \/ \E w \in BOOLEAN, z \in BOOLEAN : DeployCleanup(w, z)
  \/ DeployFinally
  \/ \E ok \in BOOLEAN : DeployReturn(ok)
  \/ ProcessExit
  \/ \E c \in {k \in Configs : k.source = "local"} : StartRestore(c)
  \/ \E ok \in BOOLEAN : RestoreUpload(TRUE, ok)
  \/ \E st \in BOOLEAN : RestoreExec(st)
  \/ RestoreExecDone
  \/ \E ok \in BOOLEAN : RestoreDelete(ok)
  \/ RestoreFinally
  \/ \E ok \in BOOLEAN : RestoreReturn(ok)
  \/ RestoreFind
  \/ \E rd \in BOOLEAN, mk \in BOOLEAN : RestoreClean(rd, mk)
  \/ \E ok \in BOOLEAN, se \in BOOLEAN : RestoreCopy(ok, se)
  \/ RestoreError

SpecDeployRestore == InitScript /\ [][NextDeployRestore]_vars

\* ----------------------------------------- the ssh clients of one run
\* A stage of the run asks for the session of loc, a remote location of the
\* configuration;
\* last: the run's stages are over after this one.
StageConnects(loc, outcome, last) ==
  /\ pc \in {"d_stage", "r_upload"}
  /\ loc \in {cfg.source, cfg.staging}
  /\ nSess < MaxSessions
  /\ LET r == ensureSSHConnectionOutcome(loc, cache, nSess, outcome) IN
     /\ cache' = r.cache
     /\ nSess' = r.n
     /\ connected' = IF r.fresh # 0 THEN connected \cup {r.fresh} ELSE connected
     /\ IF r.ok
        THEN /\ pc' = IF ~last THEN pc
                      ELSE IF cmd = "deploy" THEN "d_finally" ELSE "r_finally"
             /\ UNCHANGED <<errors, pending, failedStage>>
        ELSE Fail(1, <<"connect">>)
  /\ UNCHANGED <<fsVars, cfg, cmd, sels, opsDone, success, closeCalls, preDest,
                 scriptVars, libVars, copyVars, calls, logEvents, cfgVars,
                 svcVars, envVars>>

NextRunSessions ==
  \/ \E c \in Configs, t \in BOOLEAN : StartDeploy(c, <<>>, t)
  \/ \E c \in Configs : StartRestore(c)
  \/ \E loc \in Hosts, o \in ConnectOutcomes, last \in BOOLEAN :
       StageConnects(loc, o, last)
  \/ DeployFinally
  \/ \E ok \in BOOLEAN : DeployReturn(ok)
  \/ RestoreFinally
  \/ \E ok \in BOOLEAN : RestoreReturn(ok)
  \/ ProcessExit

SpecRunSessions == Init /\ [][NextRunSessions]_vars

\* ------------------------------------------- restore, twice in a row
\* A backup root holding the backups of two earlier deployments, and a
\* destination in any state a deployment may have left.
InitRestores ==
  /\ InitFs /\ InitRun /\ InitLibIdle /\ InitCopyIdle
  /\ \E e \in BOOLEAN, t \in SourceTrees \cup {DestLegacy, OlderTree} :
       /\ destExists = e
       /\ dest = IF e THEN t ELSE EmptyTree
  /\ backups = EarlierBackups /\ backupRoot = TRUE
  /\ clock = Len(EarlierBackups)

\* The restore command has returned success and its process exits; the
\* operator runs restore once more.
RestoreAgain(c) ==
  /\ pc = "returned" /\ cmd = "restore" /\ success
  /\ runs < MaxRuns
  /\ runs' = runs + 1
  /\ cfg' = c /\ zipTree' = EmptyTree
  /\ cmd' = "restore" /\ sels' = <<>> /\ errors' = <<>>
  /\ pending' = FALSE /\ opsDone' = {} /\ failedStage' = 0 /\ success' = FALSE
  /\ closeCalls' = 0
  /\ preDest' = [exists |-> destExists, tree |-> dest]
  /\ pc' = "r_upload"
  /\ cache' = NoSessions /\ connected' = {} /\ nSess' = 0
  /\ spc' = "off" /\ cmdIdx' = 0 /\ exitCode' = -1 /\ stderrOut' = FALSE
  /\ bkState' = "none" /\ thisBackup' = 0 /\ latestBackup' = 0 /\ preRot' = {}
  /\ logEvents' = <<>>
  /\ UNCHANGED <<source, scratch, localZip, staging, stagingZip, dest,
                 destExists, backupRoot, backups, clock, libVars, copyVars,
                 calls, cfgVars, svcVars, envVars>>

NextRestores ==
  \/ \E c \in Configs : StartRestore(c)
  \/ \E c \in BOOLEAN, ok \in BOOLEAN : RestoreUpload(c, ok)
  \/ \E st \in BOOLEAN : RestoreExec(st)
  \/ RestoreExecDone
  \/ \E ok \in BOOLEAN : RestoreDelete(ok)
  \/ RestoreFinally
  \/ \E ok \in BOOLEAN : RestoreReturn(ok)
  \/ RestoreFind
  \/ \E rd \in BOOLEAN, mk \in BOOLEAN : RestoreClean(rd, mk)
  \/ \E ok \in BOOLEAN, se \in BOOLEAN : RestoreCopy(ok, se)
  \/ RestoreError
  \/ \E c \in Configs : RestoreAgain(c)

SpecRestores == InitRestores /\ [][NextRestores]_vars

\* ------------------------------------- staging round trip, no selectors
\* Any source tree, a new working directory, and a deploy without
\* selectors that has just entered its first step.
RoundTripTrees ==
  {[p \in AllPaths |-> IF p \in ps THEN 1 ELSE 0] : ps \in SUBSET (SrcPaths \cup ZipPaths)}

InitRoundTrip ==
  /\ source \in RoundTripTrees
  /\ scratch = EmptyTree /\ localZip = FALSE /\ zipTree = EmptyTree
  /\ staging \in {EmptyTree, DestLegacy} /\ stagingZip = FALSE
  /\ dest = EmptyTree /\ destExists = FALSE
  /\ backupRoot = FALSE /\ backups = <<>> /\ clock = 0 /\ runs = 1
  /\ cfg \in Configs
  /\ pc = "d_stage" /\ cmd = "deploy" /\ sels = <<>> /\ errors = <<>>
  /\ pending = FALSE /\ opsDone = {} /\ failedStage = 0 /\ success = FALSE
  /\ closeCalls = 0
  /\ preDest = [exists |-> FALSE, tree |-> EmptyTree]
  /\ cache = NoSessions /\ connected = {} /\ nSess = 0
  /\ spc = "off" /\ cmdIdx = 0 /\ exitCode = -1 /\ stderrOut = FALSE
  /\ bkState = "none" /\ thisBackup = 0 /\ latestBackup = 0 /\ preRot = {}
  /\ logEvents = <<>>
  /\ InitEnvIdle
  /\ InitLibIdle /\ InitCopyIdle

NextRoundTrip ==
  \/ \E c \in BOOLEAN, i \in 0..1 : DeployStage(c, i)
  \/ \E ok \in BOOLEAN : DeployCompress(ok)
  \/ \E c \in BOOLEAN, at \in {"none", "ensureDir", "deleteContents", "transferFile"} :
       DeployTransfer(c, at)
  \/ \E ok \in BOOLEAN : DeployDecompress(ok)

SpecRoundTrip == InitRoundTrip /\ [][NextRoundTrip]_vars

\* ------------------------------------- copyFiles / copyToTemp as calls
\* The selectors a call may be given, and the lists of them.
CopySelectors ==
  { WholeFolder("bin"), WholeFolder("www"),
    FolderFiles("bin", <<"app.dll", "app.xml">>),
    FolderFiles("bin", <<"app.xml">>),
    FolderFiles("www", <<"index">>) }

RECURSIVE ListsUpTo(_, _)
ListsUpTo(S, n) ==
  IF n = 0 THEN {<<>>}
  ELSE LET shorter == ListsUpTo(S, n - 1)
       IN  shorter \cup {Append(l, x) : l \in shorter, x \in S}

CopySourceTrees ==
  {[p \in AllPaths |-> IF p \in ps THEN 1 ELSE 0] : ps \in SUBSET SrcPaths}

\* A call about to be made: any source tree, any selector list, and a
\* target that is empty or holds files of an earlier copy.
InitCopy ==
  /\ InitFs /\ InitRun /\ InitLibIdle
  /\ destExists = FALSE /\ dest = EmptyTree
  /\ backups = <<>> /\ backupRoot = FALSE /\ clock = 0
  /\ cpState = "call"
  /\ cpSource \in CopySourceTrees
  /\ cpFolders \in ListsUpTo(CopySelectors, MaxSelectors)
  /\ cpBefore \in {EmptyTree, DestLegacy, OlderTree}
  /\ cpTarget = cpBefore
  /\ cpRoot = TRUE /\ cpRootBefore = TRUE /\ execLog = {}
  /\ cpCount = 0 /\ cpFailed = {}
  /\ calls = [i \in 1..MaxCalls |-> NoCall]
  /\ InitConfigIdle
  /\ InitSessionIdle

CopyFilesCall(ioFailAt) ==
  /\ cpState = "call"
  /\ LET r == copyFiles(cpSource, cpTarget, cpFolders, ioFailAt) IN
     /\ cpTarget' = r.tree
     /\ cpState' = IF r.ok THEN "copyFiles done" ELSE "copyFiles threw"
  /\ UNCHANGED <<fsVars, runVars, sshVars, scriptVars, libVars,
                 cpSource, cpFolders, cpBefore, cpRoot, cpRootBefore,
                 execLog, cpCount, cpFailed, calls, logEvents, cfgVars,
                 svcVars, envVars>>

CopyToTempCall(ioFailAt) ==
  /\ cpState = "call"
  /\ LET r == copyToTemp(cpSource, cpTarget, cpFolders, ioFailAt) IN
     /\ cpTarget' = r.tree
     /\ cpState' = IF r.ok THEN "copyToTemp done" ELSE "copyToTemp threw"
  /\ UNCHANGED <<fsVars, runVars, sshVars, scriptVars, libVars,
                 cpSource, cpFolders, cpBefore, cpRoot, cpRootBefore,
                 execLog, cpCount, cpFailed, calls, logEvents, cfgVars,
                 svcVars, envVars>>

\* copyFiles from an ssh location to an ssh location of the same
\* host:port, no selectors: srcSSH.copyDir on the source's session.
CopyFilesRemoteCall ==
  /\ cpState = "call"
  /\ Len(cpFolders) = 0
  /\ LET r == copyDir(cpSource, cpTarget) IN
     /\ cpTarget' = r.tree
     /\ execLog' = r.cmds
  /\ cpState' = "copyDir done"
  /\ UNCHANGED <<fsVars, runVars, sshVars, scriptVars, libVars,
                 cpSource, cpFolders, cpBefore, cpRoot, cpRootBefore,
                 cpCount, cpFailed, calls, logEvents, cfgVars, svcVars, envVars>>

NextCopy ==
  \/ \E i \in 0..MaxSelectors : CopyFilesCall(i)
  \/ \E i \in 0..MaxSelectors : CopyToTempCall(i)
  \/ CopyFilesRemoteCall

SpecCopy == InitCopy /\ [][NextCopy]_vars

\* The same calls when no read or write fails for a reason of the host.
NextCopyNoFault ==
  \/ CopyFilesCall(0)
  \/ CopyToTempCall(0)
  \/ CopyFilesRemoteCall

SpecCopyNoFault == InitCopy /\ [][NextCopyNoFault]_vars

\* ------------------------------------- the four directory copy strategies
\* How the transfer of a file can fail: the call rejects (a stream or
\* request error), or the copy command run on the host ends with a
\* non-zero exit code.
FailureKinds == {"rejects", "exit code"}

\* countFiles(srcPath)
countFiles(t) == Cardinality(FilesIn(t))

\* copyLocalToLocal: fs.copy of the whole directory, which rejects at the
\* first file it cannot copy, then countFiles of the source.  todo: the
\* files not reached yet; failed: the files whose copy fails.
RECURSIVE fsCopy(_, _, _, _)
fsCopy(src, tgt, todo, failed) ==
  IF todo = {} THEN [ok |-> TRUE, tree |-> tgt]
  ELSE LET p == CHOOSE q \in todo : TRUE IN
       IF p \in failed THEN [ok |-> FALSE, tree |-> tgt]
       ELSE fsCopy(src, [tgt EXCEPT ![p] = src[p]], todo \ {p}, failed)

copyLocalToLocal(src, tgt, failed) ==
  LET r == fsCopy(src, tgt, FilesIn(src), failed) IN
  [ok |-> r.ok, tree |-> r.tree, count |-> IF r.ok THEN countFiles(src) ELSE 0,
   ran |-> {}]

\* uploadDirectory: ssh.uploadFile for each file, count++ after it.
RECURSIVE uploadDirectory(_, _, _, _, _)
uploadDirectory(src, tgt, todo, failed, count) ==
  IF todo = {} THEN [ok |-> TRUE, tree |-> tgt, count |-> count, ran |-> {}]
  ELSE LET p == CHOOSE q \in todo : TRUE IN
       IF p \in failed
       THEN [ok |-> FALSE, tree |-> tgt, count |-> 0, ran |-> {}]
       ELSE uploadDirectory(src, [tgt EXCEPT ![p] = src[p]], todo \ {p},
                            failed, count + 1)

\* downloadDirectory: ssh.downloadFile for each file, count++ after it.
RECURSIVE downloadDirectory(_, _, _, _, _)
downloadDirectory(src, tgt, todo, failed, count) ==
  IF todo = {} THEN [ok |-> TRUE, tree |-> tgt, count |-> count, ran |-> {}]
  ELSE LET p == CHOOSE q \in todo : TRUE IN
       IF p \in failed
       THEN [ok |-> FALSE, tree |-> tgt, count |-> 0, ran |-> {}]
       ELSE downloadDirectory(src, [tgt EXCEPT ![p] = src[p]], todo \ {p},
                              failed, count + 1)

\* SSHService.copyFile: the command is run on the host and the call
\* resolves when its stream closes, whatever the exit code; it rejects
\* only when the command cannot be run or the stream reports an error.
copyFile(src, tgt, p, failed, kind) ==
  IF p \notin failed THEN [ok |-> TRUE, tree |-> [tgt EXCEPT ![p] = src[p]]]
  ELSE IF kind = "exit code" THEN [ok |-> TRUE, tree |-> tgt]
  ELSE [ok |-> FALSE, tree |-> tgt]

\* SSHService.copyDir, file by file: copyFile, count++ after it; ran are
\* the files a copy command was run for.
RECURSIVE copyDirCounting(_, _, _, _, _, _, _)
copyDirCounting(src, tgt, todo, failed, kind, count, ran) ==
  IF todo = {} THEN [ok |-> TRUE, tree |-> tgt, count |-> count, ran |-> ran]
  ELSE LET p == CHOOSE q \in todo : TRUE
           r == copyFile(src, tgt, p, failed, kind)
       IN  IF ~r.ok
           THEN [ok |-> FALSE, tree |-> tgt, count |-> 0, ran |-> ran \cup {p}]
           ELSE copyDirCounting(src, r.tree, todo \ {p}, failed, kind,
                                count + 1, ran \cup {p})

\* The strategies of copyFiles without selectors.
Strategies ==
  {"copyLocalToLocal", "copyLocalToSSH", "copySSHToLocal", "copyDir"}

copyStrategy(which, src, tgt, failed, kind) ==
  CASE which = "copyLocalToLocal" -> copyLocalToLocal(src, tgt, failed)
    [] which = "copyLocalToSSH" ->
         uploadDirectory(src, tgt, FilesIn(src), failed, 0)
    [] which = "copySSHToLocal" ->
         downloadDirectory(src, tgt, FilesIn(src), failed, 0)
    [] which = "copyDir" ->
         copyDirCounting(src, tgt, FilesIn(src), failed, kind, 0, {})

\* A copy about to be made of any source directory that exists.
InitTransfer ==
  /\ InitFs /\ InitRun /\ InitLibIdle
  /\ destExists = FALSE /\ dest = EmptyTree
  /\ backups = <<>> /\ backupRoot = FALSE /\ clock = 0
  /\ cpState = "call"
  /\ cpSource \in CopySourceTrees
  /\ cpFolders = <<>>
  /\ cpBefore \in {EmptyTree, DestLegacy}
  /\ cpTarget = cpBefore
  /\ cpRoot = TRUE /\ cpRootBefore = TRUE /\ execLog = {}
  /\ cpCount = 0 /\ cpFailed = {}
  /\ calls = [i \in 1..MaxCalls |-> NoCall]
  /\ InitConfigIdle
  /\ InitSessionIdle

\* One copy by the strategy which; the transfer of each file of failed
\* fails in the way kind.
TransferCall(which, failed, kind) ==
  /\ cpState = "call"
  /\ which = "copyDir" \/ kind = "rejects"
  /\ LET r == copyStrategy(which, cpSource, cpTarget, failed, kind) IN
     /\ cpTarget' = r.tree
     /\ cpCount' = r.count
     /\ cpState' = which \o (IF r.ok THEN " returned" ELSE " threw")
     /\ execLog' = {[op |-> "copy", path |-> p] : p \in r.ran}
  /\ cpFailed' = failed \cap FilesIn(cpSource)
  /\ UNCHANGED <<fsVars, runVars, sshVars, scriptVars, libVars,
                 cpSource, cpFolders, cpBefore, cpRoot, cpRootBefore,
                 calls, logEvents, cfgVars, svcVars, envVars>>

NextTransfer ==
  \E which \in Strategies, p \in SrcPaths, failing \in BOOLEAN,
     kind \in FailureKinds :
    TransferCall(which, IF failing THEN {p} ELSE {}, kind)

SpecTransfer == InitTransfer /\ [][NextTransfer]_vars

\* ------------------------------- two deploy invocations, the same profile
\* Each invocation is a process of its own with its own archive; staging,
\* destination and backup root are those of the one profile.  pc:
\* "transfer", "decompress", "bats", "exec" are the stages of deployCommand
\* from Step 2 on, "u_backup", "u_copy", "u_rotate" the steps of the
\* update.bat it started, then "cleanup" and "done".
Invocations == 1..2

\* A stage runs as soon as the stage before it, of the same invocation,
\* has ended.
mayRunExclusive(ps, i) ==
  /\ ps[i].pc \notin {"off", "done"}
  /\ \A j \in Invocations \ {i} : ps[j].pc \in {"off", "transfer", "done"}

mayRun(ps, i) == ps[i].pc \notin {"off", "done"}

\* deleteContents(staging) by invocation i: the archives lying there go,
\* and an invocation that has extracted but not yet started its update.bat
\* has lost what it extracted.
afterWipe(ps, i) ==
  [j \in Invocations |->
     IF j = i THEN ps[j]
     ELSE [ps[j] EXCEPT !.zip = FALSE,
                        !.wiped = @ \/ ps[j].pc \in {"bats", "exec"}]]

\* The files the copy commands of update.bat bring to the destination.
copiedByUpdate ==
  LET cs == generateCopyCommands(<<>>) IN
  UNION {CommandPaths(cs[k]) : k \in 1..Len(cs)}

InitTwoDeploys ==
  /\ InitFs /\ InitOneRun /\ InitLibIdle /\ InitCopyIdle
  /\ destExists = TRUE /\ dest = DestLegacy
  /\ backups = <<>> /\ backupRoot = FALSE /\ clock = 0
  /\ \E t1 \in SourceTrees, t2 \in SourceTrees :
       procs = [i \in Invocations |->
                  [pc |-> "transfer", tree |-> IF i = 1 THEN t1 ELSE t2,
                   zip |-> FALSE, wiped |-> FALSE, ts |-> 0]]
  /\ progress = NoProgress /\ hostCopy = NoHostCopy
  /\ deployResult = NoResult /\ sharedDir = NoSharedDir

\* The frame of a step of one invocation.
TwoFrame ==
  UNCHANGED <<source, scratch, localZip, zipTree, stagingZip, runs, runVars,
              sshVars, scriptVars, libVars, copyVars, calls, logEvents,
              cfgVars, svcVars, progress, hostCopy, deployResult,
              sharedDir>>

\* Step 2: ensureDir, deleteContents(staging), transferFile.
TwoTransfer(i, ok) ==
  /\ mayRun(procs, i) /\ procs[i].pc = "transfer"
  /\ staging' = EmptyTree
  /\ procs' = [afterWipe(procs, i) EXCEPT
                 ![i].zip = ok,
                 ![i].pc = IF ok THEN "decompress" ELSE "done"]
  /\ UNCHANGED <<dest, destExists, backupRoot, backups, clock>>
  /\ TwoFrame

\* Step 3: the archive is extracted in staging and deleted; the step fails
\* when the archive is not there any more.
TwoDecompress(i) ==
  /\ mayRun(procs, i) /\ procs[i].pc = "decompress"
  /\ IF procs[i].zip
     THEN /\ staging' = CopyPaths(procs[i].tree, staging, AllPaths)
          /\ procs' = [procs EXCEPT ![i].zip = FALSE, ![i].pc = "bats"]
     ELSE /\ UNCHANGED staging
          /\ procs' = [procs EXCEPT ![i].pc = "done"]
  /\ UNCHANGED <<dest, destExists, backupRoot, backups, clock>>
  /\ TwoFrame

\* Step 3.5, first half: update.bat and restore.bat are put in staging.
TwoBats(i) ==
  /\ mayRun(procs, i) /\ procs[i].pc = "bats"
  /\ staging' = [staging EXCEPT !["update.bat"] = 1, !["restore.bat"] = 1]
  /\ procs' = [procs EXCEPT ![i].pc = "exec"]
  /\ UNCHANGED <<dest, destExists, backupRoot, backups, clock>>
  /\ TwoFrame

\* Step 3.5, second half: update.bat of staging is started and takes its
\* timestamp; the start fails when the script is not there.
TwoExec(i) ==
  /\ mayRun(procs, i) /\ procs[i].pc = "exec"
  /\ IF staging["update.bat"] # 0
     THEN /\ clock' = clock + 1
          /\ procs' = [procs EXCEPT ![i].pc = "u_backup", ![i].ts = clock + 1]
     ELSE /\ UNCHANGED clock
          /\ procs' = [procs EXCEPT ![i].pc = "done"]
  /\ UNCHANGED <<staging, dest, destExists, backupRoot, backups>>
  /\ TwoFrame

\* update.bat [1/4] of invocation i.
TwoScriptBackup(i) ==
  /\ mayRun(procs, i) /\ procs[i].pc = "u_backup"
  /\ backupRoot' = TRUE
  /\ backups' = IF destExists
                THEN <<[name |-> procs[i].ts, tree |-> xcopyTree(dest)]>>
                       \o backups
                ELSE backups
  /\ procs' = [procs EXCEPT ![i].pc = "u_copy"]
  /\ UNCHANGED <<staging, dest, destExists, clock>>
  /\ TwoFrame

\* update.bat [2/4] of invocation i: what staging holds now is copied.
TwoScriptCopy(i) ==
  /\ mayRun(procs, i) /\ procs[i].pc = "u_copy"
  /\ dest' = CopyPaths(staging, dest, copiedByUpdate)
  /\ destExists' = (destExists \/ \E p \in copiedByUpdate : staging[p] # 0)
  /\ procs' = [procs EXCEPT ![i].pc = "u_rotate"]
  /\ UNCHANGED <<staging, backupRoot, backups, clock>>
  /\ TwoFrame

\* update.bat [3/4] of invocation i, and its exit.
TwoScriptRotate(i) ==
  /\ mayRun(procs, i) /\ procs[i].pc = "u_rotate"
  /\ backups' = rotateInScript(backups, cfg.maxBackups)
  /\ procs' = [procs EXCEPT ![i].pc = "cleanup"]
  /\ UNCHANGED <<staging, dest, destExists, backupRoot, clock>>
  /\ TwoFrame

\* Step 4: deleteContents(staging).
TwoCleanup(i) ==
  /\ mayRun(procs, i) /\ procs[i].pc = "cleanup"
  /\ staging' = EmptyTree
  /\ procs' = [afterWipe(procs, i) EXCEPT ![i].pc = "done"]
  /\ UNCHANGED <<dest, destExists, backupRoot, backups, clock>>
  /\ TwoFrame

\* The next step of invocation i.
TwoStep(i) ==
  \/ \E ok \in BOOLEAN : TwoTransfer(i, ok)
  \/ TwoDecompress(i)
  \/ TwoBats(i)
  \/ TwoExec(i)
  \/ TwoScriptBackup(i)
  \/ TwoScriptCopy(i)
  \/ TwoScriptRotate(i)
  \/ TwoCleanup(i)

NextTwoDeploys == \E i \in Invocations : TwoStep(i)

SpecTwoDeploys == InitTwoDeploys /\ [][NextTwoDeploys]_vars

\* ------------------------------------------ progress of one transfer
\* A JavaScript number: an integer, Infinity, or NaN.
Num(n) == [kind |-> "num", v |-> n]
Infinity == [kind |-> "inf", v |-> 0]
NaN == [kind |-> "nan", v |-> 0]

\* Math.round((size / totalSize) * 100) for sizes >= 0: halves round up,
\* and a division by zero gives Infinity, or NaN for 0 / 0.
roundPercent(size, totalSize) ==
  IF totalSize = 0 THEN (IF size = 0 THEN NaN ELSE Infinity)
  ELSE Num((200 * size + totalSize) \div (2 * totalSize))

\* Math.min(100, x): NaN stays NaN.
min100(x) ==
  IF x.kind = "nan" THEN NaN
  ELSE IF x.kind = "inf" \/ x.v > 100 THEN Num(100) ELSE x

\* The percentage without the Math.min.
localPercentageUnclamped(copiedSize, totalSize) ==
  roundPercent(copiedSize, totalSize)

\* transferFile, local staging: the percentage handed to onProgress by the
\* filter of fs.copy.
localPercentage(copiedSize, totalSize) ==
  min100(roundPercent(copiedSize, totalSize))

\* uploadFileWithProgress: the percentage handed to onProgress by the
\* 'data' handler.
sshPercentage(uploadedSize, totalSize) == roundPercent(uploadedSize, totalSize)

InitProgress ==
  /\ InitFs /\ InitOneRun /\ InitLibIdle /\ InitCopyIdle
  /\ destExists = FALSE /\ dest = EmptyTree
  /\ backups = <<>> /\ backupRoot = FALSE /\ clock = 0
  /\ procs = [i \in 1..2 |-> NoProc] /\ hostCopy = NoHostCopy
  /\ deployResult = NoResult /\ sharedDir = NoSharedDir
  /\ \E m \in {"local", "ssh"}, size \in 0..MaxSize :
       progress = [mode |-> m, total |-> size, done |-> 0, values |-> <<>>,
                   state |-> "copying"]

ProgressFrame ==
  UNCHANGED <<fsVars, runVars, sshVars, scriptVars, libVars, copyVars, calls,
              logEvents, cfgVars, svcVars, procs, hostCopy, deployResult,
              sharedDir>>

\* fs.copy calls the filter: copiedSize grows by the simulated step and the
\* percentage is reported.
LocalFilter ==
  /\ progress.mode = "local" /\ progress.state = "copying"
  /\ Len(progress.values) < MaxFilterCalls
  /\ progress' =
       [progress EXCEPT
          !.done = @ + SimulatedStep,
          !.values = Append(@, localPercentage(progress.done + SimulatedStep,
                                               progress.total))]
  /\ ProgressFrame

\* fs.copy settles: when it resolves, onProgress(100); when it rejects,
\* transferFile throws.
LocalCopySettles(ok) ==
  /\ progress.mode = "local" /\ progress.state = "copying"
  /\ Len(progress.values) >= 1 \/ ~ok
  /\ progress' =
       IF ok THEN [progress EXCEPT !.values = Append(@, Num(100)),
                                   !.state = "finished"]
       ELSE [progress EXCEPT !.state = "failed"]
  /\ ProgressFrame

\* The read stream hands over a chunk of the archive.
SshData(len) ==
  /\ progress.mode = "ssh" /\ progress.state = "copying"
  /\ progress.done + len <= progress.total
  /\ progress' =
       [progress EXCEPT
          !.done = @ + len,
          !.values = Append(@, sshPercentage(progress.done + len,
                                             progress.total))]
  /\ ProgressFrame

\* The write stream closes after the last chunk, or a stream reports an
\* error.
SshSettles(ok) ==
  /\ progress.mode = "ssh" /\ progress.state = "copying"
  /\ ok => progress.done = progress.total
  /\ progress' = [progress EXCEPT !.state = IF ok THEN "finished" ELSE "failed"]
  /\ ProgressFrame

NextProgress ==
  \/ LocalFilter
  \/ \E ok \in BOOLEAN : LocalCopySettles(ok)
  \/ \E len \in 1..MaxSize : SshData(len)
  \/ \E ok \in BOOLEAN : SshSettles(ok)

SpecProgress == InitProgress /\ [][NextProgress]_vars

\* ------------------------------ copyFiles between two ssh locations
\* copyFiles(source, dest) with both locations of type ssh and no
\* selectors: the session of the source's host:port is taken and copyDir
\* is run on it with the two paths.
InitHostCopy ==
  /\ InitFs /\ InitOneRun /\ InitLibIdle /\ InitCopyIdle
  /\ destExists = FALSE /\ dest = EmptyTree
  /\ backups = <<>> /\ backupRoot = FALSE /\ clock = 0
  /\ procs = [i \in 1..2 |-> NoProc] /\ progress = NoProgress
  /\ deployResult = NoResult /\ sharedDir = NoSharedDir
  /\ \E f \in Hosts, t \in Hosts, src \in CopySourceTrees,
        a \in [Hosts -> {EmptyTree, DestLegacy}] :
       hostCopy = [from |-> f, to |-> t, tree |-> src, at |-> a,
                   on |-> "none", count |-> 0, state |-> "call"]

HostCopyCall(connOk) ==
  /\ hostCopy.state = "call"
  /\ Ensure(hostCopy.from, connOk)
  /\ IF Ensured(hostCopy.from, connOk)
     THEN LET srcSSH == hostCopy.from
              r == copyDirCounting(hostCopy.tree, hostCopy.at[srcSSH],
                                   FilesIn(hostCopy.tree), {}, "rejects", 0, {})
          IN  hostCopy' = [hostCopy EXCEPT !.at[srcSSH] = r.tree,
                                           !.on = srcSSH,
                                           !.count = r.count,
                                           !.state = "returned"]
     ELSE hostCopy' = [hostCopy EXCEPT !.state = "threw"]
  /\ UNCHANGED <<fsVars, runVars, scriptVars, libVars, copyVars, calls,
                 logEvents, cfgVars, svcVars, procs, progress, deployResult,
                 sharedDir>>

NextHostCopy == \E connOk \in BOOLEAN : HostCopyCall(connOk)

SpecHostCopy == InitHostCopy /\ [][NextHostCopy]_vars

\* ------------------------------------------- the result of deployCommand
\* The number copyToTemp returns when it does not throw: countFiles of each
\* whole folder, one for each enumerated file; countFiles of the source
\* without selectors.
RECURSIVE copyToTempFoldersCount(_, _, _)
copyToTempFoldersCount(src, folders, i) ==
  IF i > Len(folders) THEN 0
  ELSE LET s == folders[i]
           here == IF s.kind = "folder"
                   THEN Cardinality(FilesIn(src) \cap FolderPaths(s.name))
                   ELSE Len(s.files)
       IN  here + copyToTempFoldersCount(src, folders, i + 1)

copyToTempCount(src, folders) ==
  IF Len(folders) > 0 THEN copyToTempFoldersCount(src, folders, 1)
  ELSE countFiles(src)

\* A deployCommand call about to be made: any source tree and selectors.
InitDeployResult ==
  /\ InitFs /\ InitOneRun /\ InitLibIdle /\ InitCopyIdle
  /\ destExists = FALSE /\ dest = EmptyTree
  /\ backups = <<>> /\ backupRoot = FALSE /\ clock = 0
  /\ procs = [i \in 1..2 |-> NoProc] /\ progress = NoProgress
  /\ hostCopy = NoHostCopy /\ sharedDir = NoSharedDir
  /\ \E src \in CopySourceTrees, f \in ListsUpTo(CopySelectors, MaxSelectors) :
       deployResult = [NoResult EXCEPT !.src = src, !.folders = f,
                                       !.state = "call"]

ResultFrame ==
  UNCHANGED <<fsVars, runVars, sshVars, scriptVars, libVars, copyVars, calls,
              logEvents, cfgVars, svcVars, procs, progress, hostCopy,
              sharedDir>>

\* "let filesDeployed = 0", then Step 1: sourceFiles is what copyToTemp
\* returns; a throw is pushed to errors and rethrown.
ResultStage(ioFailAt) ==
  /\ deployResult.state = "call"
  /\ LET r == copyToTemp(deployResult.src, EmptyTree, deployResult.folders,
                         ioFailAt)
     IN  deployResult' =
           IF r.ok
           THEN [deployResult EXCEPT
                   !.filesDeployed = 0,
                   !.sourceFiles = copyToTempCount(deployResult.src,
                                                   deployResult.folders),
                   !.state = "staged"]
           ELSE [deployResult EXCEPT !.filesDeployed = 0, !.failed = 1,
                                     !.state = "threw"]
  /\ ResultFrame

\* Steps 1 (compress) to 4: none of them assigns filesDeployed; a failing
\* step pushes its message and rethrows.
ResultLaterStages(ok) ==
  /\ deployResult.state = "staged"
  /\ deployResult' =
       IF ok THEN [deployResult EXCEPT !.state = "finished"]
       ELSE [deployResult EXCEPT !.failed = 1, !.state = "threw"]
  /\ ResultFrame

\* The DeployResult object: success and filesDeployed.
ResultReturn ==
  /\ deployResult.state = "finished"
  /\ deployResult' = [deployResult EXCEPT !.success = (deployResult.failed = 0),
                                          !.state = "returned"]
  /\ ResultFrame

NextDeployResult ==
  \/ \E ioFailAt \in 0..MaxSelectors : ResultStage(ioFailAt)
  \/ \E ok \in BOOLEAN : ResultLaterStages(ok)
  \/ ResultReturn

SpecDeployResult == InitDeployResult /\ [][NextDeployResult]_vars

\* ------------------------------ one backup root, script and BackupService
\* A directory name "backup<sep><timestamp>".
BackupName(sep, ts) == [stem |-> "backup", sep |-> sep, ts |-> ts]

\* createBackup: `backup-${timestamp}`.
serviceBackupName(ts) == BackupName("-", ts)

\* update.bat: %backup_dir%\backup_%timestamp%.
scriptBackupName(ts) == BackupName("_", ts)

\* f.startsWith('backup-')
startsWithBackupHyphen(n) == n.stem = "backup" /\ n.sep = "-"

\* dir /b /ad "%backup_dir%\backup_*"
matchesBackupUnderscore(n) == n.stem = "backup" /\ n.sep = "_"

\* getBackupsList over the names of the root.
listBackups(entries) == {e.name : e \in {x \in entries : startsWithBackupHyphen(x.name)}}

\* The names the script's dir command yields.
scriptBackups(entries) ==
  {e.name : e \in {x \in entries : matchesBackupUnderscore(x.name)}}

\* BackupService.rotateBackups: the listed names sorted by name, all but
\* the last maxBackups deleted.
serviceRotation(entries, maxBackups) ==
  LET listed == listBackups(entries)
      del == {n \in listed :
                Cardinality({m \in listed : m.ts > n.ts}) >= maxBackups}
  IN  {e \in entries : e.name \notin del}

\* update.bat, [3/4]: the matching directories newest first, those after
\* the first max_backups removed.
scriptRotation(entries, maxBackups) ==
  LET found == {e \in entries : matchesBackupUnderscore(e.name)}
      del == {e \in found :
                Cardinality({m \in found : m.made > e.made}) >= maxBackups}
  IN  entries \ del

InitSharedDir ==
  /\ InitFs /\ InitOneRun /\ InitLibIdle /\ InitCopyIdle
  /\ destExists = FALSE /\ dest = EmptyTree
  /\ backups = <<>> /\ backupRoot = FALSE /\ clock = 0
  /\ procs = [i \in 1..2 |-> NoProc] /\ progress = NoProgress
  /\ hostCopy = NoHostCopy /\ deployResult = NoResult
  /\ sharedDir = NoSharedDir

SharedFrame ==
  UNCHANGED <<fsVars, runVars, sshVars, scriptVars, libVars, copyVars, calls,
              logEvents, cfgVars, svcVars, procs, progress, hostCopy,
              deployResult>>

\* update.bat run in the root: the backup of the destination is made, then
\* the old backups are rotated.
SharedScriptUpdate(maxBackups) ==
  /\ sharedDir.clock < MaxTs
  /\ LET ts == sharedDir.clock + 1
         all == sharedDir.entries \cup
                  {[name |-> scriptBackupName(ts), made |-> ts, by |-> "script"]}
     IN  sharedDir' = [entries |-> scriptRotation(all, maxBackups),
                       clock |-> ts, last |-> "update.bat", pre |-> all,
                       seen |-> scriptBackups(all)]
  /\ SharedFrame

\* restore.bat looks for the most recent backup of the root.
SharedScriptRestore ==
  /\ sharedDir.last # "restore.bat"
  /\ sharedDir' = [sharedDir EXCEPT !.last = "restore.bat",
                                    !.pre = sharedDir.entries,
                                    !.seen = scriptBackups(sharedDir.entries)]
  /\ SharedFrame

\* BackupService.createBackup with the same root as backup.path.
SharedCreateBackup(maxBackups) ==
  /\ sharedDir.clock < MaxTs
  /\ LET ts == sharedDir.clock + 1
         all == sharedDir.entries \cup
                  {[name |-> serviceBackupName(ts), made |-> ts, by |-> "service"]}
     IN  sharedDir' = [entries |-> serviceRotation(all, maxBackups),
                       clock |-> ts, last |-> "createBackup", pre |-> all,
                       seen |-> listBackups(all)]
  /\ SharedFrame

\* BackupService.listBackups of the root.
SharedListBackups ==
  /\ sharedDir.last # "listBackups"
  /\ sharedDir' = [sharedDir EXCEPT !.last = "listBackups",
                                    !.pre = sharedDir.entries,
                                    !.seen = listBackups(sharedDir.entries)]
  /\ SharedFrame

NextSharedDir ==
  \/ \E k \in 1..(MaxTs - 1) : SharedScriptUpdate(k)
  \/ SharedScriptRestore
  \/ \E k \in 1..(MaxTs - 1) : SharedCreateBackup(k)
  \/ SharedListBackups

SpecSharedDir == InitSharedDir /\ [][NextSharedDir]_vars

\* ------------------------------------------- deleteContents, called twice
DeletePaths == {"bin/app.dll", "bin/app.xml", "www/index", "update.bat", "site.zip"}

DeleteTrees ==
  {[p \in AllPaths |-> IF p \in ps THEN 1 ELSE 0] : ps \in SUBSET DeletePaths}

\* A location whose root is missing, empty, or holds files and folders.
InitDelete ==
  /\ InitFs /\ InitRun /\ InitLibIdle
  /\ destExists = FALSE /\ dest = EmptyTree
  /\ backups = <<>> /\ backupRoot = FALSE /\ clock = 0
  /\ cpState = "delete"
  /\ cpSource = EmptyTree /\ cpFolders = <<>>
  /\ cpRoot \in BOOLEAN
  /\ cpBefore \in DeleteTrees
  /\ ~cpRoot => cpBefore = EmptyTree
  /\ cpTarget = cpBefore
  /\ cpRootBefore = cpRoot
  /\ execLog = {}
  /\ cpCount = 0 /\ cpFailed = {}
  /\ calls = [i \in 1..MaxCalls |-> NoCall]
  /\ InitConfigIdle
  /\ InitSessionIdle

\* deleteContents(location), a first time and, after it returned, again.
DeleteContentsCall(remote, listing, failAt) ==
  /\ cpState \in {"delete", "deleteContents done"}
  /\ listing \in Listings(TopEntries(cpTarget))
  /\ LET r == deleteContents(remote, cpRoot, cpTarget, listing, failAt) IN
     /\ cpTarget' = r.tree
     /\ cpState' =
          IF cpState = "delete"
          THEN (IF r.ok THEN "deleteContents done" ELSE "deleteContents threw")
          ELSE (IF r.ok THEN "deleteContents done twice"
                ELSE "deleteContents threw again")
  /\ UNCHANGED <<fsVars, runVars, sshVars, scriptVars, libVars,
                 cpSource, cpFolders, cpBefore, cpRoot, cpRootBefore,
                 execLog, cpCount, cpFailed, calls, logEvents, cfgVars,
                 svcVars, envVars>>

NextDelete ==
  \E remote \in BOOLEAN, listing \in Listings(TopEntries(cpTarget)),
     failAt \in 0..MaxEntries :
    DeleteContentsCall(remote, listing, failAt)

SpecDelete == InitDelete /\ [][NextDelete]_vars

\* -------------------------------------------------------- SSHService.mkdir
\* A path is the sequence of its pieces: a drive "C:", a separator "/" or
\* "\\", a name, or ".".  A directory of the host is the sequence of the
\* names that lead to it, the drive first when there is one.
Separators == {"/", "\\"}

\* /^[A-Za-z]:/.test(remotePath)
isWindowsPath(p) == Len(p) > 0 /\ p[1] = "C:"

\* remotePath.split(sep): the parts between the separators of the set seps.
RECURSIVE split(_, _)
split(p, seps) ==
  IF p = <<>> THEN << <<>> >>
  ELSE LET r == split(Tail(p), seps) IN
       IF Head(p) \in seps THEN << <<>> >> \o r
       ELSE << <<Head(p)>> \o r[1] >> \o Tail(r)

\* .filter(Boolean): the empty parts are dropped.
filterBoolean(parts) == SelectSeq(parts, LAMBDA x : x # <<>>)

\* The directory the session starts in.
Home == << <<".">> >>

\* The directory the host takes a path for: either separator separates,
\* and a path with neither a drive nor a leading "/" starts at Home.
Resolve(p) ==
  LET names == SelectSeq(filterBoolean(split(p, Separators)),
                         LAMBDA x : x # <<".">>)
  IN  IF isWindowsPath(p) \/ p[1] = "/" THEN names ELSE Home \o names

\* The loop of mkdir: currentPath grows by "/" and the part; stat, and
\* mkdirSingle when stat finds nothing.  failAt: the mkdirSingle that
\* rejects (0: none).
RECURSIVE mkdirLoop(_, _, _, _, _, _)
mkdirLoop(currentPath, parts, i, dirs, created, failAt) ==
  IF i > Len(parts) THEN [ok |-> TRUE, dirs |-> dirs, created |-> created]
  ELSE LET next == IF currentPath # <<>> THEN currentPath \o <<"/">> \o parts[i]
                   ELSE <<"/">> \o parts[i]
           d == Resolve(next)
       IN  IF d \in dirs
           THEN mkdirLoop(next, parts, i + 1, dirs, created, failAt)
           ELSE IF failAt = Cardinality(created) + 1
           THEN [ok |-> FALSE, dirs |-> dirs, created |-> created]
           ELSE mkdirLoop(next, parts, i + 1, dirs \cup {d}, created \cup {d},
                          failAt)

\* mkdir(remotePath, true)
mkdir(p, dirs, failAt) ==
  LET parts == filterBoolean(split(p, {"/"})) IN
  IF isWindowsPath(p) THEN mkdirLoop(parts[1], Tail(parts), 1, dirs, {}, failAt)
  ELSE IF p[1] = "/" THEN mkdirLoop(<<>>, parts, 1, dirs, {}, failAt)
  ELSE mkdirLoop(<<".">>, parts, 1, dirs, {}, failAt)

\* The paths mkdir is called with, and the directories a host may hold.
MkdirPaths ==
  { <<"C:", "/", "a">>, <<"C:", "/", "a", "/", "b">>,
    <<"C:", "\\", "a">>, <<"C:", "\\", "a", "\\", "b">>,
    <<"/", "a">>, <<"/", "a", "/", "b">>, <<"a", "/", "b">> }

Drive == << <<"C:">> >>

HostDirs == {Resolve(p) : p \in MkdirPaths} \cup {Resolve(<<"a">>)}

PrefixClosed(ds) ==
  \A d \in ds : \A k \in 1..(Len(d) - 1) :
    SubSeq(d, 1, k) \in ds \cup {Drive, Home}

InitMkdir ==
  /\ InitFs /\ InitRun /\ InitLibIdle
  /\ destExists = FALSE /\ dest = EmptyTree
  /\ backups = <<>> /\ backupRoot = FALSE /\ clock = 0
  /\ cpState = "idle" /\ cpSource = EmptyTree /\ cpFolders = <<>>
  /\ cpBefore = EmptyTree /\ cpTarget = EmptyTree
  /\ cpRoot = FALSE /\ cpRootBefore = FALSE /\ execLog = {}
  /\ cpCount = 0 /\ cpFailed = {}
  /\ calls = [i \in 1..MaxCalls |-> NoCall]
  /\ InitConfigIdle
  /\ session = [client |-> "ready", sftp |-> TRUE, connect |-> "resolved"]
  /\ requests = {} /\ lastOp = NoOp
  /\ \E ds \in SUBSET HostDirs :
       /\ PrefixClosed(ds)
       /\ remoteDirs = ds \cup {Drive, Home}
  /\ mkdirCall = NoMkdir

\* mkdir(path, true) on the connected session.
MkdirCall(p, failAt) ==
  /\ session.sftp
  /\ mkdirCall.state \in {"none", "returned"}
  /\ LET r == mkdir(p, remoteDirs, failAt) IN
     /\ remoteDirs' = r.dirs
     /\ mkdirCall' = [path |-> p, before |-> remoteDirs,
                      created |-> r.created,
                      state |-> IF r.ok THEN "returned" ELSE "threw"]
  /\ requests' = requests \cup {"mkdir"}
  /\ lastOp' = [op |-> "mkdir", outcome |-> "requested"]
  /\ UNCHANGED <<fsVars, runVars, sshVars, scriptVars, libVars, copyVars, calls,
                 logEvents, cfgVars, session, envVars>>

NextMkdir ==
  \E p \in MkdirPaths, failAt \in 0..MaxSegments : MkdirCall(p, failAt)

SpecMkdir == InitMkdir /\ [][NextMkdir]_vars

\* ----------------------------------------------- one SSHService session
\* The operations guarded by "if (!this.sftp) throw" and those guarded by
\* "if (!this.client) throw".
SftpOps == {"readDir", "stat", "mkdir", "uploadFile", "uploadFileWithProgress",
            "downloadFile", "deleteFile", "deleteDir", "copyDir"}

ClientOps == {"exec"}

\* The guard at the head of an operation.
guardPasses(op, s) == IF op \in SftpOps THEN s.sftp ELSE s.client # "null"

\* connect(config): the Client is created and client.connect() called.
SessionConnect ==
  /\ session.connect = "none"
  /\ session' = [session EXCEPT !.client = "new", !.connect = "pending"]
  /\ UNCHANGED <<fsVars, runVars, sshVars, scriptVars, libVars, copyVars, calls,
                 logEvents, cfgVars, requests, lastOp, remoteDirs, mkdirCall,
                 envVars>>

\* 'ready': connected is set and the sftp subsystem requested; 'error'
\* before that: connect() rejects, the Client stays in this.client.
SessionClientSettles(ready) ==
  /\ session.connect = "pending" /\ session.client = "new"
  /\ session' = IF ready THEN [session EXCEPT !.client = "ready"]
                ELSE [session EXCEPT !.connect = "rejected"]
  /\ UNCHANGED <<fsVars, runVars, sshVars, scriptVars, libVars, copyVars, calls,
                 logEvents, cfgVars, requests, lastOp, remoteDirs, mkdirCall,
                 envVars>>

\* getSFTP: this.sftp is set and connect() resolves, or connect() rejects
\* with the client connected.
SessionSftpSettles(ok) ==
  /\ session.connect = "pending" /\ session.client = "ready"
  /\ session' = IF ok THEN [session EXCEPT !.sftp = TRUE, !.connect = "resolved"]
                ELSE [session EXCEPT !.connect = "rejected"]
  /\ UNCHANGED <<fsVars, runVars, sshVars, scriptVars, libVars, copyVars, calls,
                 logEvents, cfgVars, requests, lastOp, remoteDirs, mkdirCall,
                 envVars>>

\* An operation is called: its guard throws, or the call goes to the ssh2
\* client, which sends a request when it is connected and refuses otherwise.
SessionOperation(op) ==
  /\ IF ~guardPasses(op, session)
     THEN /\ lastOp' = [op |-> op, outcome |-> "not connected"]
          /\ UNCHANGED requests
     ELSE IF session.client = "ready"
     THEN /\ lastOp' = [op |-> op, outcome |-> "requested"]
          /\ requests' = requests \cup {op}
     ELSE /\ lastOp' = [op |-> op, outcome |-> "refused by the client"]
          /\ UNCHANGED requests
  /\ UNCHANGED <<fsVars, runVars, sshVars, scriptVars, libVars, copyVars, calls,
                 logEvents, cfgVars, session, remoteDirs, mkdirCall,
                 envVars>>

InitSession ==
  /\ InitFs /\ InitRun /\ InitLibIdle /\ InitCopyIdle
  /\ destExists = FALSE /\ dest = EmptyTree
  /\ backups = <<>> /\ backupRoot = FALSE /\ clock = 0

NextSession ==
  \/ SessionConnect
  \/ \E ready \in BOOLEAN : SessionClientSettles(ready)
  \/ \E ok \in BOOLEAN : SessionSftpSettles(ok)
  \/ \E op \in SftpOps \cup ClientOps : SessionOperation(op)

SpecSession == InitSession /\ [][NextSession]_vars

\* -------------------------- ensureSSHConnection under concurrent callers
\* The synchronous head of a call: null for a local location, the cached
\* session on a hit, else "new SSHService()" and the await of connect().
EnsureCallBegins(i, loc, user) ==
  /\ calls[i].st = "idle"
  /\ IF loc = "local"
     THEN /\ calls' = [calls EXCEPT ![i] = [st |-> "returned", loc |-> loc,
                                            user |-> user, ssh |-> 0, ret |-> 0]]
          /\ UNCHANGED nSess
     ELSE IF cache[loc] # 0
     THEN /\ calls' = [calls EXCEPT ![i] = [st |-> "returned", loc |-> loc,
                                            user |-> user, ssh |-> 0,
                                            ret |-> cache[loc]]]
          /\ UNCHANGED nSess
     ELSE /\ nSess < MaxSessions
          /\ nSess' = nSess + 1
          /\ calls' = [calls EXCEPT ![i] = [st |-> "connecting", loc |-> loc,
                                            user |-> user, ssh |-> nSess + 1,
                                            ret |-> 0]]
  /\ UNCHANGED <<fsVars, runVars, cache, connected, scriptVars, libVars, copyVars,
                 logEvents, cfgVars, svcVars, envVars>>

\* connect() settles: on success the session is put in the map under the
\* location's host:port and returned; on failure the call throws.
EnsureCallConnects(i, ok) ==
  /\ calls[i].st = "connecting"
  /\ IF ok
     THEN /\ cache' = [cache EXCEPT ![calls[i].loc] = calls[i].ssh]
          /\ connected' = connected \cup {calls[i].ssh}
          /\ calls' = [calls EXCEPT ![i].st = "returned", ![i].ret = calls[i].ssh]
     ELSE /\ calls' = [calls EXCEPT ![i].st = "threw"]
          /\ UNCHANGED <<cache, connected>>
  /\ UNCHANGED <<fsVars, runVars, nSess, scriptVars, libVars, copyVars, logEvents, cfgVars, svcVars, envVars>>

\* closeAllConnections once every call has settled; the callers start anew.
EnsureCallsClosed ==
  /\ \A i \in 1..MaxCalls : calls[i].st \in {"returned", "threw"}
  /\ LET r == closeAllConnections(cache, connected) IN
     /\ cache' = r.cache /\ connected' = r.connected
  /\ calls' = [i \in 1..MaxCalls |-> NoCall]
  /\ UNCHANGED <<fsVars, runVars, nSess, scriptVars, libVars, copyVars, logEvents, cfgVars, svcVars, envVars>>

InitSessions ==
  /\ InitFs /\ InitRun /\ InitLibIdle /\ InitCopyIdle
  /\ destExists = FALSE /\ dest = EmptyTree
  /\ backups = <<>> /\ backupRoot = FALSE /\ clock = 0

NextSessions ==
  \/ \E i \in 1..MaxCalls, loc \in Hosts \cup {"local"}, user \in {"u1", "u2"} :
       EnsureCallBegins(i, loc, user)
  \/ \E i \in 1..MaxCalls, ok \in BOOLEAN : EnsureCallConnects(i, ok)
  \/ EnsureCallsClosed

SpecSessions == InitSessions /\ [][NextSessions]_vars

\* ================================================================ claims
\* C1: whenever a stage of the deploy or restore pipeline has failed, the
\* command ends by returning a result with success = false; it never ends
\* by throwing.
C1_ReturnsResultOnFailure ==
  (pc \in {"returned", "thrown"} /\ failedStage # 0)
    => (pc = "returned" /\ ~success)

\* C2: after a deploy run that failed (at a stage, or inside update.bat),
\* the destination holds its pre-deploy contents or the newest backup (by
\* name) holds exactly the pre-deploy contents.
C2_DestinationOrBackupIntact ==
  (cmd = "deploy" /\ pc \in {"returned", "thrown"}
     /\ (failedStage # 0 \/ exitCode = 1))
    => \/ dest = preDest.tree
       \/ /\ Len(backups) > 0
          /\ \E i \in 1..Len(backups) :
               /\ \A j \in 1..Len(backups) : backups[j].name <= backups[i].name
               /\ backups[i].tree = preDest.tree

\* C2 (amended): the same, for the runs that found the destination
\* existing; a run that finds no destination makes no backup and may leave
\* a partly copied destination behind.
C2_ExistingDestinationOrBackupIntact ==
  (cmd = "deploy" /\ pc \in {"returned", "thrown"}
     /\ (failedStage # 0 \/ exitCode = 1) /\ preDest.exists)
    => \/ dest = preDest.tree
       \/ /\ Len(backups) > 0
          /\ \E i \in 1..Len(backups) :
               /\ \A j \in 1..Len(backups) : backups[j].name <= backups[i].name
               /\ backups[i].tree = preDest.tree

\* C2 witness: a failed deploy whose script had backed the existing
\* destination up and then changed it before a copy command failed.
C2_Witness ==
  /\ cmd = "deploy" /\ pc = "thrown" /\ failedStage = 5 /\ preDest.exists
  /\ bkState = "ok" /\ exitCode = 1 /\ dest # preDest.tree

\* C3: while update.bat runs on an existing destination and its backup copy
\* has not succeeded, the destination is as the run found it; once the
\* backup copy has failed the script is on the error path and exits 1.
C3_NoWriteBeforeBackup ==
  (cmd = "deploy" /\ spc # "off" /\ preDest.exists)
    => /\ bkState # "ok" => (dest = preDest.tree /\ destExists)
       /\ bkState = "failed" => spc \in {"u_error", "exited"}
       /\ (bkState = "failed" /\ spc = "exited") => exitCode = 1

\* C3 witness: update.bat has exited after its backup copy failed.
C3_Witness ==
  /\ cmd = "deploy" /\ preDest.exists /\ bkState = "failed"
  /\ spc = "exited" /\ exitCode = 1 /\ dest = preDest.tree

\* C4: in a deploy run the operations happen stage after stage, and once
\* stage k has failed no operation of a later stage is ever executed and
\* the error list holds the failure message.
C4_TerminalOnFailure ==
  cmd = "deploy" =>
    /\ \A op \in opsDone : \A k \in 1..(StageOf(op) - 1) :
         \E before \in opsDone : StageOf(before) = k
    /\ failedStage # 0 =>
         /\ \A op \in opsDone : StageOf(op) <= failedStage
         /\ Len(errors) > 0

\* C4 witness: a run that failed at the extraction stage has ended.
C4_Witness ==
  /\ cmd = "deploy" /\ failedStage = 3 /\ pc = "thrown"
  /\ "decompressFilesRemote" \in opsDone

\* C5: closeAllConnections is never called twice in a run, and when the run
\* has ended it was called once, the session cache is empty and no session
\* is connected.
C5_ClosedExactlyOnce ==
  /\ closeCalls <= 1
  /\ pc \in {"returned", "thrown", "d_summary", "r_summary"}
       => /\ closeCalls = 1
          /\ cache = NoSessions
          /\ connected = {}

\* C5 witness: a run that had opened two sessions has ended.
C5_Witness ==
  /\ pc \in {"returned", "thrown"} /\ nSess = 2 /\ closeCalls = 1

\* C6: once update.bat or restore.bat has exited with a non-zero code and
\* the command has seen the exit, an error is recorded, no later stage
\* runs, and the run is not reported successful.
C6_NonZeroExitFailsTheRun ==
  (spc = "exited" /\ exitCode # 0 /\ pc \notin {"d_wait", "r_wait"})
    => /\ Len(errors) > 0
       /\ pc \notin {"d_cleanup", "r_delete", "d_summary", "r_summary"}
       /\ ~success

\* C7: after a createBackup call whose rotation completed, the backups
\* left are min(count, maxBackups) of those present before the rotation,
\* and every one deleted is older (by name) than every one kept.
C7_RotationKeepsNewest ==
  libLast = "rotated" =>
    LET all == {e \in libPre \cup {libNew} : startsWithBackup(e)}
        kept == {e \in libEntries : startsWithBackup(e)}
    IN  /\ kept \subseteq all
        /\ Cardinality(kept) =
             (IF Cardinality(all) < libMax THEN Cardinality(all) ELSE libMax)
        /\ \A k \in kept, d \in all \ kept : d < k
        /\ libNew \in kept

\* C7 witness: a rotation that had to delete, keeping more than one backup.
C7_Witness ==
  /\ libLast = "rotated" /\ libMax = 2
  /\ Cardinality({e \in libPre : startsWithBackup(e)}) = 2
  /\ Cardinality({e \in libEntries : startsWithBackup(e)}) = 2

\* C8: after update.bat has exited with code 0, the backups left number
\* min(count before rotation, maxBackups), every backup deleted has a
\* smaller name than every backup kept, and the backup this run made is
\* kept.
C8_ScriptRotationKeepsNewestByName ==
  (cmd = "deploy" /\ spc = "exited" /\ exitCode = 0) =>
    LET kept == BackupNames(backups) IN
    /\ kept \subseteq preRot
    /\ Cardinality(kept) =
         (IF Cardinality(preRot) < cfg.maxBackups
          THEN Cardinality(preRot) ELSE cfg.maxBackups)
    /\ \A k \in kept, d \in preRot \ kept : d < k
    /\ bkState = "ok" => thisBackup \in kept

\* C9: when restore.bat has found no backup (or no backup root), it is on
\* the error path or has exited with code 1, and the destination is as the
\* run found it.
C9_NoBackupLeavesDestination ==
  (cmd = "restore" /\ spc \notin {"off", "r_find"} /\ latestBackup = 0)
    => /\ spc \in {"r_error", "exited"}
       /\ spc = "exited" => exitCode = 1
       /\ dest = preDest.tree /\ destExists = preDest.exists

\* C9 witness: restore.bat has exited 1 for want of a backup, with an
\* existing destination.
C9_Witness ==
  /\ cmd = "restore" /\ spc = "exited" /\ latestBackup = 0 /\ exitCode = 1
  /\ preDest.exists /\ FilesIn(dest) # {}

\* C10: when compression starts, the temp directory holds exactly the files
\* the run's selectors pick from the current source.
C10_ScratchIsTheSelection ==
  pc = "d_compress" => FilesIn(scratch) = Selected(source, sels)

\* C11: when a deploy without selectors, started in a new working
\* directory, has extracted the archive at staging, staging holds exactly
\* the relative file paths of the source tree.
C11_RoundTripKeepsPaths ==
  (pc = "d_bats" /\ Len(sels) = 0) => FilesIn(staging) = FilesIn(source)

\* C12: after a copyFiles or copyToTemp call whose selector list holds a
\* whole-folder selector for a folder the source lacks, the call has
\* thrown, and the only paths it changed in the target are paths of the
\* selectors before that one.
C12_MissingFolderAborts ==
  cpState \notin {"idle", "call"} =>
    \A k \in 1..Len(cpFolders) :
      (cpFolders[k].kind = "folder" /\ ~HasFolder(cpSource, cpFolders[k].name))
        => /\ cpState \in {"copyFiles threw", "copyToTemp threw"}
           /\ \A p \in AllPaths :
                cpTarget[p] # cpBefore[p]
                  => p \in SelectedPaths(SubSeq(cpFolders, 1, k - 1), 1)

\* C12 witness: copyFiles copied the first selector's folder and threw at
\* the second selector, a folder the source lacks.
C12_Witness ==
  /\ cpState = "copyFiles threw"
  /\ cpFolders = <<WholeFolder("bin"), WholeFolder("www")>>
  /\ ~HasFolder(cpSource, "www")
  /\ cpTarget # cpBefore /\ cpTarget["www/index"] = cpBefore["www/index"]

\* C13: after a copyFiles or copyToTemp call whose selector list holds a
\* files selector naming a file its (existing) source folder lacks, the
\* call has thrown, and the only paths it changed in the target are paths
\* of the selectors before that one.
C13_MissingFileCopiesNothing ==
  cpState \notin {"idle", "call"} =>
    \A k \in 1..Len(cpFolders) :
      (/\ cpFolders[k].kind = "files"
       /\ HasFolder(cpSource, cpFolders[k].name)
       /\ \E j \in 1..Len(cpFolders[k].files) :
            ~HasFile(cpSource, cpFolders[k].name, cpFolders[k].files[j]))
        => /\ cpState \in {"copyFiles threw", "copyToTemp threw"}
           /\ \A p \in AllPaths :
                cpTarget[p] # cpBefore[p]
                  => p \in SelectedPaths(SubSeq(cpFolders, 1, k - 1), 1)

\* C14: between two closeAllConnections calls, no two ensureSSHConnection
\* calls open a session each for the same host:port, and any two calls
\* that returned for the same host:port returned the same session.
C14_OneSessionPerEndpoint ==
  \A i \in 1..MaxCalls, j \in 1..MaxCalls :
    (i # j /\ calls[i].loc = calls[j].loc /\ calls[i].loc # "local")
      => /\ ~(calls[i].ssh \in connected /\ calls[j].ssh \in connected)
         /\ (calls[i].st = "returned" /\ calls[j].st = "returned")
              => calls[i].ret = calls[j].ret

\* C15: a copy of a non-empty tree between two ssh locations of the same
\* host:port runs exactly one copy command on the session, and that command
\* names no single file.
C15_SingleServerSideCopy ==
  (cpState = "copyDir done" /\ FilesIn(cpSource) # {}) =>
    /\ Cardinality(execLog) = 1
    /\ \A c \in execLog : c.path \notin AllPaths

\* C16: a deleteContents call that returns leaves no child under the root
\* and leaves the root as it was, present or missing; on an empty or
\* missing root it changes nothing and does not throw; a second call after
\* the first changes nothing and does not throw.
C16_DeleteContentsEmptiesTheRoot ==
  /\ cpState \in {"deleteContents done", "deleteContents done twice"}
       => (FilesIn(cpTarget) = {} /\ cpRoot = cpRootBefore)
  /\ cpState = "deleteContents threw"
       => (cpRootBefore /\ FilesIn(cpBefore) # {})
  /\ cpState # "deleteContents threw again"

\* C16 witness: a root holding a folder and a file was emptied by the first
\* call and the second call returned.
C16_Witness ==
  /\ cpState = "deleteContents done twice"
  /\ cpRoot
  /\ HasFolder(cpBefore, "bin") /\ cpBefore["update.bat"] # 0

\* C17: a rotateBackups call made after a completed rotation, with the same
\* maxBackups and no backup created in between, deletes nothing and does
\* not throw.
C17_RotateIsIdempotent ==
  [][(libLast \in {"rotated", "rotated again"}
        /\ libLast' \in {"rotated again", "rotate threw"})
       => (libEntries' = libEntries /\ libLast' = "rotated again")]_vars

\* C17 witness: the first rotation deleted a backup, the second call
\* returned, and maxBackups backups are left.
C17_Witness ==
  /\ libLast = "rotated again"
  /\ (libPre \cup {libNew}) \ libEntries # {}
  /\ Cardinality({e \in libEntries : startsWithBackup(e)}) = libMax

\* C18: when a deploy run hands control back to its caller, by returning
\* or by throwing, the completion summary has been logged and the log then
\* saved, and a returned result has success = (errors.length = 0).
C18_SummaryLoggedAndSaved ==
  (cmd = "deploy" /\ pc \in {"returned", "thrown"}) =>
    /\ logEvents = <<"completed", "saved">>
    /\ pc = "returned" => (success <=> Len(errors) = 0)

\* C19: once the cleanup step of a run has been entered (deploy: the wipe
\* of staging and the removal of the local zip; restore: the removal of
\* restore.bat), whether it failed or not, errors is empty, no exception
\* is pending, and a result that is returned has success = true.
C19_CleanupFailureOnlyWarns ==
  ("cleanupDeleteContents" \in opsDone \/ "deleteRestoreBat" \in opsDone) =>
    /\ Len(errors) = 0
    /\ ~pending
    /\ pc = "returned" => success

\* C19 witness: a deploy returned success after its wipe of staging failed,
\* leaving the staged files and the local zip behind.
C19_Witness ==
  /\ pc = "returned" /\ success /\ cmd = "deploy"
  /\ "cleanupDeleteContents" \in opsDone /\ "cleanupZips" \notin opsDone
  /\ FilesIn(staging) # {} /\ localZip

\* C20: when the first deploy run made in a working directory hands control
\* back, by returning or by throwing, the temp directory holds none of the
\* files the run put there: no staged file, no archive, no update.bat or
\* restore.bat.
C20_ScratchLeftClean ==
  (cmd = "deploy" /\ runs = 1 /\ pc \in {"returned", "thrown"}) =>
    (FilesIn(scratch) = {} /\ ~localZip)

\* C21: the maxBackups of a built configuration, the max_backups written in
\* update.bat and the maxBackups a rotation ran with are at least 1, and
\* the configuration's is 3 when the profile gives none.
C21_RetentionAtLeastOne ==
  /\ config.built =>
       /\ config.maxBackups >= 1
       /\ ~profile.set => config.maxBackups = 3
  /\ batMax.made => batMax.v >= 1
  /\ libLast = "rotated" => libMax >= 1

\* C22: a createBackup call on a missing source leaves the backup root as
\* it was; after a call on an existing source the backup root exists, and
\* when the call rotated with maxBackups >= 1 the backup it made is there.
C22_CreateBackupEnsuresRoot ==
  /\ libLast = "skipped" => (libEntries = libPre /\ libNew = 0)
  /\ libLast \in {"rotated", "threw"} => libRoot
  /\ (libLast = "rotated" /\ libMax >= 1) => libNew \in libEntries

\* C23: when update.bat has exited with code 0, every file at staging that
\* one of its copy commands names is in the destination with the staged
\* content, and the backup step did not fail.
C23_ExitZeroMeansAllCopied ==
  (cmd = "deploy" /\ spc = "exited" /\ exitCode = 0 /\ pc = "d_wait") =>
    /\ bkState # "failed"
    /\ \A i \in 1..Len(generateCopyCommands(sels)) :
         \A p \in CommandPaths(generateCopyCommands(sels)[i]) :
           staging[p] # 0 => dest[p] = staging[p]

\* C24: when restore.bat has exited with code 0, the destination exists and
\* holds exactly the files of the backup it restored: the old destination
\* was removed, a new one made, and the backup copied into it.
C24_RestoreExitZeroMeansAllSteps ==
  (cmd = "restore" /\ spc = "exited" /\ exitCode = 0 /\ pc = "r_wait") =>
    /\ destExists
    /\ \E i \in 1..Len(backups) :
         backups[i].name = latestBackup /\ dest = backups[i].tree

\* C25: the backup restore.bat has picked to restore from is the one whose
\* name is greatest among the backups under the backup root.
C25_RestoresGreatestName ==
  (cmd = "restore" /\ spc \in {"r_clean", "r_copy", "exited"} /\ latestBackup # 0) =>
    \A n \in BackupNames(backups) : n <= latestBackup

\* C26: when an update.bat without selectors, none of whose copy commands
\* failed, has exited with code 0, every file at staging other than
\* update.bat and restore.bat, at the top level or in a sub-directory, is in
\* the destination with the staged content.
C26_CopiesAllButTheScripts ==
  (cmd = "deploy" /\ Len(sels) = 0 /\ spc = "exited" /\ exitCode = 0) =>
    \A p \in FilesIn(staging) \ BatPaths : dest[p] = staging[p]

\* C27: a copyFiles call with selectors, into a destination that holds only
\* its root, whose selectors all name folders and files the source has, and
\* in which no read or write fails, returns with every selected file in the
\* destination.
C27_SubdirectoriesMadeOnDemand ==
  (/\ cpState \in {"copyFiles done", "copyFiles threw"}
   /\ Len(cpFolders) > 0
   /\ cpBefore = EmptyTree
   /\ \A k \in 1..Len(cpFolders) :
        /\ HasFolder(cpSource, cpFolders[k].name)
        /\ \A j \in 1..Len(cpFolders[k].files) :
             HasFile(cpSource, cpFolders[k].name, cpFolders[k].files[j]))
    => /\ cpState = "copyFiles done"
       /\ FilesIn(cpTarget) = Selected(cpSource, cpFolders)

\* C28: as long as no connect() of the session has resolved, no operation
\* has sent a request to the host, and the last operation called, if any,
\* did not send one.
C28_NoRequestBeforeConnect ==
  session.connect # "resolved" =>
    (requests = {} /\ lastOp.outcome # "requested")

\* C29: after a mkdir(path, true) call that returned, every directory on
\* the way to the path exists; the call did not try to create the drive;
\* and when the path existed already the call created nothing.
C29_MkdirMakesEverySegment ==
  mkdirCall.state = "returned" =>
    /\ \A k \in 1..Len(Resolve(mkdirCall.path)) :
         SubSeq(Resolve(mkdirCall.path), 1, k) \in remoteDirs
    /\ Drive \notin mkdirCall.created
    /\ Resolve(mkdirCall.path) \in mkdirCall.before => mkdirCall.created = {}

\* C30: a copy in which the transfer of a file failed does not return: it
\* throws; so the count a copy returns never includes a file whose
\* transfer failed.
C30_FailedTransferFailsTheCopy ==
  cpFailed # {} => cpState \notin {s \o " returned" : s \in Strategies}

\* C31: no lock keeps two deploy invocations of one profile apart: an
\* invocation that has not finished can always take its next step,
\* wherever the other invocation is.
C31_NoMutualExclusion ==
  \A i \in Invocations :
    procs[i].pc \notin {"off", "done"} => ENABLED TwoStep(i)

\* The staging of invocation 1 was wiped by invocation 2 between its
\* extraction and the start of its update.bat, and both update scripts are
\* at their rotation in the one backup root, each having made its backup.
C31_Witness ==
  /\ procs[1].wiped
  /\ procs[1].pc = "u_rotate" /\ procs[2].pc = "u_rotate"
  /\ {procs[1].ts, procs[2].ts} \subseteq BackupNames(backups)

\* C32: every value handed to the progress callback during one transfer
\* is an integer from 0 to 100, and no value is less than the one before
\* it, whatever the size of the archive.
C32_ProgressBoundedAndMonotone ==
  /\ \A k \in 1..Len(progress.values) :
       /\ progress.values[k].kind = "num"
       /\ progress.values[k].v \in 0..100
  /\ \A k \in 2..Len(progress.values) :
       progress.values[k - 1].v <= progress.values[k].v

\* An archive of 0 bytes was copied to a local staging and the callback
\* was called by the filter and at the end.
C32_Witness ==
  /\ progress.state = "finished"
  /\ progress.mode = "local" /\ progress.total = 0
  /\ Len(progress.values) >= 2

\* C33: the destination held DestLegacy before the deploy and the deploy's
\* update.bat made its backup (the one backup of the root); a restore run
\* that then returns success has left the destination holding DestLegacy
\* and nothing else.
C33_RestoreBringsBackPreDeploy ==
  (/\ cmd = "restore" /\ pc = "returned" /\ success
   /\ Len(backups) = 1 /\ backups[1].tree = DestLegacy)
    => (destExists /\ dest = DestLegacy)

\* C34: restore runs leave the backup root as it was, and a restore run
\* that follows a successful restore run and succeeds too leaves the
\* destination as the first one left it.
C34_RestoreKeepsBackupsAndIsIdempotent ==
  /\ backups = EarlierBackups
  /\ (runs = 2 /\ cmd = "restore" /\ pc = "returned" /\ success)
       => (destExists = preDest.exists /\ dest = preDest.tree)

\* C35: after a copy between two ssh locations on different hosts has
\* returned, the destination path on the destination's host holds the
\* files of the source, and the count returned is their number.
C35_CopyLandsOnDestinationHost ==
  (hostCopy.state = "returned" /\ hostCopy.from # hostCopy.to)
    => /\ \A p \in FilesIn(hostCopy.tree) :
            hostCopy.at[hostCopy.to][p] = hostCopy.tree[p]
       /\ hostCopy.count = countFiles(hostCopy.tree)

\* C36: when a deploy or restore run has ended, no ssh client that became
\* ready during the run is still connected.
C36_EveryReadyClientEnded ==
  pc \in {"returned", "thrown", "d_summary", "r_summary"} => connected = {}

\* C37: the filesDeployed field of the result of a successful deploy is the
\* number of files copyToTemp staged.
C37_FilesDeployedIsStagedCount ==
  (deployResult.state = "returned" /\ deployResult.success)
    => deployResult.filesDeployed = deployResult.sourceFiles

\* C38: when a stage of a deploy or restore run has failed and the pipeline
\* aborts, the error list holds exactly one message.
C38_OneMessagePerFailingStage ==
  (pc \in {"d_finally", "r_finally"} /\ pending /\ failedStage # 0)
    => Len(errors) = 1

\* C39: the script and BackupService work on the same backups: a backup
\* made by the script is listed and rotated by BackupService, a backup made
\* by BackupService is rotated by the script and found by restore.bat.
C39_OneSetOfBackups ==
  /\ sharedDir.last \in {"listBackups", "createBackup"}
       => \A e \in sharedDir.pre : e.by = "script" => e.name \in sharedDir.seen
  /\ sharedDir.last \in {"update.bat", "restore.bat"}
       => \A e \in sharedDir.pre : e.by = "service" => e.name \in sharedDir.seen

\* C40: in a deploy run the staging location changes before the extraction
\* only in the transfer step, and only when no stage has failed, the archive
\* was produced and ensureDir found the staging directory (deleteContents was
\* called); a run that aborts leaves it alone afterwards.  Hence a run that
\* fails while staging or compressing, or at ensureDir, leaves the staging
\* location as it was.
C40_StagingWipedOnlyAfterArchiveAndEnsureDir ==
  [][cmd = "deploy" =>
       /\ pc \in {"d_stage", "d_compress", "d_finally", "d_summary", "thrown"}
            => UNCHANGED <<staging, stagingZip>>
       /\ (pc = "d_transfer"
             /\ ~(failedStage = 0 /\ localZip /\ "deleteContents" \in opsDone'))
            => UNCHANGED <<staging, stagingZip>>]_vars

\* A second deploy run failed while staging or compressing, and the staging
\* location still holds the files an earlier run left there.
C40_Witness ==
  /\ cmd = "deploy" /\ pc = "thrown" /\ failedStage = 1
  /\ "compressFiles" \in opsDone
  /\ staging # EmptyTree

====
